---- MODULE Spec2Model ----
(***************************************************************************)
(* A model of the Pi-hole API client of terraform-provider-pihole          *)
(* (package internal/client): the session-authenticated transport          *)
(* (New, Authenticate, ensureAuthenticated, Request), the retrying         *)
(* transport it dispatches through, and the identity-keyed resource        *)
(* operations built on it.                                                 *)
(*                                                                         *)
(* Strings the code inspects character by character (the endpoint URL)     *)
(* are sequences of one-character strings.  A session token is a sequence  *)
(* too: <<>> is the empty string, <<n>> the n-th token the remote issued.  *)
(* Time is in seconds.                                                     *)
(***************************************************************************)
EXTENDS Integers, Sequences, FiniteSets, TLC

(***************************************************************************)
(* Bounds of the model.                                                    *)
(***************************************************************************)
NumCallers == 2
MaxTicks == 1
MaxRetryCfg == 2
MaxRecords == 2
MaxOps == 2
MaxTimer == 2
MaxBlockingOps == 3
MaxIdLen == 4

(***************************************************************************)
(* Program constants.                                                      *)
(***************************************************************************)
SessionRefreshBuffer == 300
DefaultRetryMax == 3

Callers == 1..NumCallers
EmptySid == <<>>
Token(n) == <<n>>

\* The session lifetimes (seconds) the remote may grant: exactly the renewal
\* buffer (stale as soon as it is stored) and twice the renewal buffer.
Validities == {SessionRefreshBuffer, 2 * SessionRefreshBuffer}
\* The clock advances in steps of one renewal buffer.
TickStep == SessionRefreshBuffer

VARIABLES
    now,            \* time.Now(), seconds
    ticks,          \* number of clock steps taken
    password,       \* Client.password
    sid,            \* Client.sid
    sidExpiry,      \* Client.sidExpiry
    mu,             \* Client.mu: the callers holding the exclusive lock
    pc,             \* each caller's position
    op,             \* each caller's call: "none", "Authenticate" or "Request"
    firstStale,     \* the caller's check under the read lock found the session stale
    recheckStale,   \* the caller's re-check under the exclusive lock found it stale
    ranAuth,        \* the caller entered authenticateLocked
    lastResp,       \* the last response of the session endpoint a caller read
    didLogin,       \* the caller sent the credential POST
    authErr,        \* the error authenticateLocked returned to the caller, or ""
    hdr,            \* the sid header the caller attached
    dispatched,     \* the caller's resource request went to the transport
    ret,            \* what the call returned: "" (nothing yet), "ok", "error" (the
                    \* authentication error) or "transport" (the outcome of the dispatch)
    lockValid,      \* Authenticate took the lock right after an Authenticate produced a non-stale session
    issued,         \* tokens the remote has issued
    authRuns,       \* runs of authenticateLocked
    logins,         \* credential POSTs the remote received
    adopted,        \* tokens stored by a successful authentication
    minGrant,       \* the earliest expiry a successful authentication stored, if any
    lastGrant,      \* the call that stored the session at the present instant, or "none"
    granted,        \* the lifetime (seconds) the stored session was granted with
    sawShort,       \* the caller's first check met a session granted for no more than the buffer
    watch           \* whether granted and sawShort are recorded

sessVars == <<now, ticks, password, sid, sidExpiry, mu, pc, op, firstStale,
              recheckStale, ranAuth, lastResp, didLogin, authErr, hdr,
              dispatched, ret, lockValid, issued, authRuns, logins, adopted,
              minGrant, lastGrant, granted, sawShort, watch>>

VARIABLES
    cfgRetryMax,    \* Config.RetryMax
    retryMax,       \* retryClient.RetryMax
    rpc,            \* position of the request: "idle", "new", "do", "after", "done"
    i,              \* the loop counter of the transport's Do
    attempts,       \* attempts the remote received
    seen,           \* the answers the remote gave so far
    last,           \* the answer to the last attempt
    shouldRetry,    \* CheckRetry's verdict on the last attempt
    checkErr,       \* CheckRetry returned an error for the last attempt
    result          \* what Request returned

retryVars == <<cfgRetryMax, retryMax, rpc, i, attempts, seen, last, shouldRetry,
               checkErr, result>>

VARIABLES
    url,            \* Config.URL, a sequence of characters
    npc,            \* position of the construction: "idle", "new", "ready", "failed", "requested"
    newErr,         \* the error New returned, or ""
    baseURL,        \* Client.baseURL
    reqPath,        \* the path of the first request the client builds
    reqErr          \* the error the first request failed with, or ""

newVars == <<url, npc, newErr, baseURL, reqPath, reqErr>>

VARIABLES
    family,         \* which entity family the update is on
    original,       \* the identity the entity had before the update
    entity,         \* the identity the update gives it
    upc,            \* position of the update: "idle", "put", "fetch", "done"
    putPath,        \* the path of the PUT
    putBody,        \* the identity fields in the body of the PUT, as <<field, value>> pairs
    echo,           \* what the remote answered to the PUT
    fetches,        \* the follow-up fetches made, as the requests they sent
    fetched,        \* what the remote answered to the follow-up fetch
    updated         \* what the update returned

updVars == <<family, original, entity, upc, putPath, putBody, echo, fetches, fetched, updated>>

VARIABLES
    efamily,        \* which entity family the operations are on
    target,         \* the entity the operations are about
    store,          \* the records the remote holds
    nextId,         \* the id the remote assigns next
    opsDone,        \* how many operations were made
    hist            \* the last two operations, older first

entVars == <<efamily, target, store, nextId, opsDone, hist>>

VARIABLES
    setting,        \* which array-valued setting the item operations are on
    item,           \* the formatted value of the item, a sequence of characters
    arrays,         \* the remote's configuration arrays, by path
    cfgOps,         \* how many configuration operations were made
    cfgHist         \* the last two configuration operations, older first

cfgVars == <<setting, item, arrays, cfgOps, cfgHist>>

VARIABLES
    blocking,       \* the remote's blocking status: "enabled" or "disabled"
    countdown,      \* the remote's timer: {} when there is none, {n} with n seconds left
    tracked,        \* the blocking resource's state: present, enabled, timer
    lastStored,     \* the timer the last Create or Update stored in the state
    running,        \* {t} while the timer of a SetDNSBlocking(false, t) has not elapsed
    blkOps,         \* how many resource operations were made
    blkLast         \* the last resource operation

blkVars == <<blocking, countdown, tracked, lastStored, running, blkOps, blkLast>>

VARIABLES
    clock,          \* time.Now() in the sequential view of authenticate, seconds
    secret,         \* Client.password
    lease,          \* Client.sid and Client.sidExpiry
    storedAt,       \* the clock when the session was last stored
    storedBy,       \* the path that stored it: "probe" or "login"
    authCalls       \* how many times Authenticate was called

expVars == <<clock, secret, lease, storedAt, storedBy, authCalls>>

VARIABLES
    managed,        \* the section the configuration-section resource manages
    sst,            \* the array-valued setting the array-item resource manages
    omits,          \* the sections the remote's document leaves out
    leafs,          \* the remote's leaf values of the section, by key
    lists,          \* the remote's configuration arrays, by path
    secOps,         \* how many resource operations were made
    secLast         \* the last resource operation

secVars == <<managed, sst, omits, leafs, lists, secOps, secLast>>

VARIABLES
    importKind,     \* the resource imported: "lease", "cname" or "localdns"
    importId,       \* the id string given to the import, a sequence of characters
    imported,       \* the state the import stored: its id and fields, or the error
    searched        \* the value the Read after the import searched for, if it ran

impVars == <<importKind, importId, imported, searched>>

vars == <<sessVars, retryVars, newVars, updVars, entVars, cfgVars, blkVars, expVars, secVars,
          impVars>>

NoResp == [by |-> 0, path |-> "none", kind |-> "none", valid |-> FALSE, sid |-> EmptySid, validity |-> 0]

\* The session envelopes the remote may send: a valid session with or without a
\* token, or a session that is not valid (with or without a token in it).
SessionEnvelopes(path) ==
    {[path |-> path, kind |-> "envelope", valid |-> TRUE, sid |-> s, validity |-> d] :
            s \in {EmptySid, Token(issued + 1)}, d \in Validities}
    \cup {[path |-> path, kind |-> "envelope", valid |-> FALSE, sid |-> EmptySid, validity |-> 0],
          [path |-> path, kind |-> "envelope", valid |-> FALSE, sid |-> Token(issued + 1),
           validity |-> 2 * SessionRefreshBuffer]}

\* What the session endpoint may answer to the GET /auth probe: no usable
\* answer (transport failure or unparseable body), or a session envelope.
ProbeResponses ==
    {[path |-> "probe", kind |-> "fail", valid |-> FALSE, sid |-> EmptySid, validity |-> 0]}
    \cup SessionEnvelopes("probe")

\* What it may answer to the POST /auth login: no usable answer, a non-200
\* status, or a 200 with a session envelope.
LoginResponses ==
    {[path |-> "login", kind |-> k, valid |-> FALSE, sid |-> EmptySid, validity |-> 0] :
            k \in {"fail", "rejected"}}
    \cup SessionEnvelopes("login")

\* A session was stored and its lifetime was not longer than the renewal buffer.
ShortLived == adopted # {} /\ granted <= SessionRefreshBuffer

\* c.sid != "" && time.Now().Add(SessionRefreshBuffer).Before(c.sidExpiry)
SessionValidWithoutBuffer == sid # EmptySid /\ now < sidExpiry
SessionValid == sid # EmptySid /\ now + SessionRefreshBuffer < sidExpiry

(***************************************************************************)
(* The session: Authenticate, ensureAuthenticated, authenticateLocked and  *)
(* the head of Request.                                                    *)
(***************************************************************************)

\* The response r as caller p read it.
Stamp(p, r) ==
    [by |-> p, path |-> r.path, kind |-> r.kind, valid |-> r.valid, sid |-> r.sid,
     validity |-> r.validity]

\* The re-check ensureAuthenticated makes once it holds the exclusive lock.
RecheckSkipped == FALSE
Recheck == SessionValid

\* authenticateLocked stops after the probe when the remote reports the
\* session valid.
ProbeSettlesOnlyWithoutPassword(r) == r.valid /\ password = ""
ProbeSettlesAlways(r) == TRUE
ProbeSettles(r) == r.valid

\* Request returns the error of ensureAuthenticated before it builds anything.
RequestIgnoresAuthError(err) == [pc |-> "build", ret |-> ""]
RequestAfterEnsure(err) ==
    IF err # "" THEN [pc |-> "done", ret |-> "error"]
                ELSE [pc |-> "build", ret |-> ""]

\* c.mu.Lock() goes through only while nobody holds the lock.
LockUnguarded == TRUE
LockFree == mu = {}

\* The token Request reads under the read lock for the sid header.
HeaderSidUnset == EmptySid
HeaderSidSuperseded == IF issued > 1 THEN Token(issued - 1) ELSE sid
HeaderSid == sid

\* defer c.mu.Unlock(): who holds the lock once authenticateLocked has
\* returned err to caller p.
ReleasedOnlyOnSuccess(p, err) == IF err = "" THEN {} ELSE {p}
Released(p, err) == {}

\* Where a caller goes when authenticateLocked returns err ("" for nil): the
\* deferred Unlock runs, Authenticate returns the error as it is, and Request
\* goes on or returns.
AuthReturn(p, err) ==
    /\ mu' = Released(p, err)
    /\ authErr' = [authErr EXCEPT ![p] = err]
    /\ IF op[p] = "Authenticate"
       THEN /\ pc' = [pc EXCEPT ![p] = "done"]
            /\ ret' = [ret EXCEPT ![p] = IF err = "" THEN "ok" ELSE "error"]
       ELSE /\ pc' = [pc EXCEPT ![p] = RequestAfterEnsure(err).pc]
            /\ ret' = [ret EXCEPT ![p] = RequestAfterEnsure(err).ret]

\* c.sid = authResp.Session.SID; c.sidExpiry = time.Now().Add(Validity seconds)
Adopt(p, r) ==
    /\ sid' = r.sid
    /\ sidExpiry' = now + r.validity
    /\ issued' = IF r.sid = EmptySid THEN issued ELSE issued + 1
    /\ adopted' = adopted \cup {r.sid}
    /\ minGrant' = IF \A e \in minGrant : now + r.validity < e
                    THEN {now + r.validity} ELSE minGrant
    /\ lastGrant' = op[p]
    /\ granted' = IF watch THEN r.validity ELSE granted

KeepSession == UNCHANGED <<sid, sidExpiry, issued, adopted, minGrant, lastGrant, granted>>

SessInit ==
    /\ now = 0
    /\ ticks = 0
    /\ password \in {"", "secret"}
    /\ sid = EmptySid
    /\ sidExpiry = 0
    /\ adopted = {}
    /\ granted = 0
    /\ sawShort = [p \in Callers |-> FALSE]
    /\ watch = FALSE
    /\ mu = {}
    /\ pc = [p \in Callers |-> "idle"]
    /\ op = [p \in Callers |-> "none"]
    /\ firstStale = [p \in Callers |-> FALSE]
    /\ recheckStale = [p \in Callers |-> FALSE]
    /\ ranAuth = [p \in Callers |-> FALSE]
    /\ lastResp = NoResp
    /\ didLogin = [p \in Callers |-> FALSE]
    /\ authErr = [p \in Callers |-> ""]
    /\ hdr = [p \in Callers |-> EmptySid]
    /\ dispatched = [p \in Callers |-> FALSE]
    /\ ret = [p \in Callers |-> ""]
    /\ lockValid = [p \in Callers |-> FALSE]
    /\ issued = 0
    /\ authRuns = 0
    /\ logins = 0
    /\ minGrant = {}
    /\ lastGrant = "none"

\* A client whose session an earlier Authenticate stored in this instant,
\* granted on the probe for no more than the renewal buffer.
ShortInit ==
    /\ now = 0
    /\ ticks = 0
    /\ password \in {"", "secret"}
    /\ sid = Token(1)
    /\ sidExpiry \in {v \in Validities : v <= SessionRefreshBuffer}
    /\ adopted = {Token(1)}
    /\ granted = sidExpiry
    /\ sawShort = [p \in Callers |-> FALSE]
    /\ watch = TRUE
    /\ mu = {}
    /\ pc = [p \in Callers |-> "idle"]
    /\ op = [p \in Callers |-> "none"]
    /\ firstStale = [p \in Callers |-> FALSE]
    /\ recheckStale = [p \in Callers |-> FALSE]
    /\ ranAuth = [p \in Callers |-> FALSE]
    /\ lastResp = [by |-> 0, path |-> "probe", kind |-> "envelope", valid |-> TRUE,
                   sid |-> Token(1), validity |-> sidExpiry]
    /\ didLogin = [p \in Callers |-> FALSE]
    /\ authErr = [p \in Callers |-> ""]
    /\ hdr = [p \in Callers |-> EmptySid]
    /\ dispatched = [p \in Callers |-> FALSE]
    /\ ret = [p \in Callers |-> ""]
    /\ lockValid = [p \in Callers |-> FALSE]
    /\ issued = 1
    /\ authRuns = 1
    /\ logins = 0
    /\ minGrant = {sidExpiry}
    /\ lastGrant = "Authenticate"

\* The session's actions leave the rest alone.
OnlySession == UNCHANGED <<watch, retryVars, newVars, updVars, entVars, cfgVars, blkVars, expVars, secVars, impVars>>

\* Callers are interchangeable: they are numbered in the order they call.
StartsInOrder(p) == IF p = 1 THEN TRUE ELSE pc[p - 1] # "idle"

\* Time passes.
Tick ==
    /\ OnlySession
    /\ ticks < MaxTicks
    /\ ticks' = ticks + 1
    /\ now' = now + TickStep
    /\ lastGrant' = "none"
    /\ UNCHANGED <<password, sid, sidExpiry, mu, pc, op, firstStale, sawShort, recheckStale,
                   ranAuth, lastResp, didLogin, authErr, hdr, dispatched, ret,
                   lockValid, issued, authRuns, logins, adopted, minGrant, granted>>

\* A caller calls Authenticate: c.mu.Lock(), then authenticateLocked.
Authenticate(p) ==
    /\ OnlySession
    /\ pc[p] = "idle"
    /\ StartsInOrder(p)
    /\ LockFree
    /\ mu' = {p}
    /\ op' = [op EXCEPT ![p] = "Authenticate"]
    /\ pc' = [pc EXCEPT ![p] = "probe"]
    /\ ranAuth' = [ranAuth EXCEPT ![p] = TRUE]
    /\ authRuns' = authRuns + 1
    /\ lockValid' = [lockValid EXCEPT ![p] =
                        SessionValid /\ lastGrant = "Authenticate"]
    /\ UNCHANGED <<now, ticks, password, firstStale, sawShort, recheckStale, lastResp, didLogin,
                   authErr, hdr, dispatched, ret, logins>>
    /\ KeepSession

\* A caller calls Request: ensureAuthenticated reads the session under the
\* read lock, which no writer may hold.
ensureAuthenticatedFast(p) ==
    /\ OnlySession
    /\ pc[p] = "idle"
    /\ StartsInOrder(p)
    /\ mu = {}
    /\ op' = [op EXCEPT ![p] = "Request"]
    /\ firstStale' = [firstStale EXCEPT ![p] = ~SessionValid]
    /\ sawShort' = [sawShort EXCEPT ![p] = watch /\ ShortLived]
    /\ pc' = [pc EXCEPT ![p] = IF SessionValid THEN "build" ELSE "lock"]
    /\ UNCHANGED <<now, ticks, password, mu, recheckStale, ranAuth, lastResp, didLogin,
                   authErr, hdr, dispatched, ret, lockValid, authRuns, logins>>
    /\ KeepSession

\* ensureAuthenticated takes the exclusive lock and checks again: it returns
\* nil (and unlocks) when the session is valid by now, and enters
\* authenticateLocked otherwise.
ensureAuthenticatedSlow(p) ==
    /\ OnlySession
    /\ pc[p] = "lock"
    /\ LockFree
    /\ IF Recheck
       THEN /\ pc' = [pc EXCEPT ![p] = RequestAfterEnsure("").pc]
            /\ UNCHANGED <<mu, recheckStale, ranAuth, authRuns>>
       ELSE /\ mu' = {p}
            /\ pc' = [pc EXCEPT ![p] = "probe"]
            /\ recheckStale' = [recheckStale EXCEPT ![p] = ~SessionValid]
            /\ ranAuth' = [ranAuth EXCEPT ![p] = TRUE]
            /\ authRuns' = authRuns + 1
    /\ UNCHANGED <<now, ticks, password, op, firstStale, sawShort, lastResp, didLogin, authErr,
                   hdr, dispatched, ret, lockValid, logins>>
    /\ KeepSession

\* authenticateLocked, first half: GET auth.
authenticateLockedProbe(p) ==
    /\ OnlySession
    /\ pc[p] = "probe"
    /\ mu = {p}
    /\ \E r \in ProbeResponses :
          /\ lastResp' = Stamp(p, r)
          /\ IF r.kind = "fail"
             THEN AuthReturn(p, "failed to check auth status") /\ KeepSession
             ELSE IF ProbeSettles(r)
             THEN AuthReturn(p, "") /\ Adopt(p, r)
             ELSE IF password = ""
             THEN AuthReturn(p, "authentication required but no password provided")
                  /\ KeepSession
             ELSE /\ pc' = [pc EXCEPT ![p] = "login"]
                  /\ UNCHANGED <<mu, authErr, ret>>
                  /\ KeepSession
    /\ UNCHANGED <<now, ticks, password, op, firstStale, sawShort, recheckStale, ranAuth, didLogin,
                   hdr, dispatched, lockValid, authRuns, logins>>

\* authenticateLocked, second half: POST auth with the password.
authenticateLockedLogin(p) ==
    /\ OnlySession
    /\ pc[p] = "login"
    /\ mu = {p}
    /\ didLogin' = [didLogin EXCEPT ![p] = TRUE]
    /\ logins' = logins + 1
    /\ \E r \in LoginResponses :
          /\ lastResp' = Stamp(p, r)
          /\ IF r.kind = "fail"
             THEN AuthReturn(p, "failed to authenticate") /\ KeepSession
             ELSE IF r.kind = "rejected"
             THEN AuthReturn(p, "authentication failed") /\ KeepSession
             ELSE IF ~r.valid
             THEN AuthReturn(p, "authentication failed: invalid session") /\ KeepSession
             ELSE AuthReturn(p, "") /\ Adopt(p, r)
    /\ UNCHANGED <<now, ticks, password, op, firstStale, sawShort, recheckStale, ranAuth, hdr,
                   dispatched, lockValid, authRuns>>

\* Request reads c.sid under the read lock and sets the sid header.
RequestHeader(p) ==
    /\ OnlySession
    /\ pc[p] = "build"
    /\ mu = {}
    /\ hdr' = [hdr EXCEPT ![p] = HeaderSid]
    /\ pc' = [pc EXCEPT ![p] = "send"]
    /\ UNCHANGED <<now, ticks, password, mu, op, firstStale, sawShort, recheckStale, ranAuth,
                   lastResp, didLogin, authErr, dispatched, ret, lockValid, authRuns,
                   logins>>
    /\ KeepSession

\* Request hands the request to the transport and returns what comes back
\* (RetryDo and RequestClassify below).
RequestDo(p) ==
    /\ OnlySession
    /\ pc[p] = "send"
    /\ dispatched' = [dispatched EXCEPT ![p] = TRUE]
    /\ pc' = [pc EXCEPT ![p] = "done"]
    /\ ret' = [ret EXCEPT ![p] = "transport"]
    /\ UNCHANGED <<now, ticks, password, mu, op, firstStale, sawShort, recheckStale, ranAuth,
                   lastResp, didLogin, authErr, hdr, lockValid, authRuns, logins>>
    /\ KeepSession

SessNext ==
    \/ Tick
    \/ \E p \in Callers : Authenticate(p)
    \/ \E p \in Callers : ensureAuthenticatedFast(p)
    \/ \E p \in Callers : ensureAuthenticatedSlow(p)
    \/ \E p \in Callers : authenticateLockedProbe(p)
    \/ \E p \in Callers : authenticateLockedLogin(p)
    \/ \E p \in Callers : RequestHeader(p)
    \/ \E p \in Callers : RequestDo(p)

\* The session variables of a client nothing calls.
SessIdle ==
    /\ now = 0 /\ ticks = 0 /\ password = "" /\ sid = EmptySid /\ sidExpiry = 0
    /\ mu = {}
    /\ pc = [p \in Callers |-> "idle"]
    /\ op = [p \in Callers |-> "none"]
    /\ firstStale = [p \in Callers |-> FALSE]
    /\ recheckStale = [p \in Callers |-> FALSE]
    /\ ranAuth = [p \in Callers |-> FALSE]
    /\ lastResp = NoResp
    /\ didLogin = [p \in Callers |-> FALSE]
    /\ authErr = [p \in Callers |-> ""]
    /\ hdr = [p \in Callers |-> EmptySid]
    /\ dispatched = [p \in Callers |-> FALSE]
    /\ ret = [p \in Callers |-> ""]
    /\ lockValid = [p \in Callers |-> FALSE]
    /\ issued = 0 /\ authRuns = 0 /\ logins = 0
    /\ adopted = {} /\ minGrant = {} /\ lastGrant = "none"
    /\ granted = 0 /\ sawShort = [p \in Callers |-> FALSE] /\ watch = FALSE

(***************************************************************************)
(* The retrying transport (retryablehttp.Client.Do with the retry bound    *)
(* New sets and DefaultRetryPolicy as CheckRetry) and the tail of Request, *)
(* which turns the transport's outcome into the call's result.             *)
(***************************************************************************)

\* The statuses the remote answers with.
Statuses == {200, 400, 404, 429, 500, 501, 503}
\* What a response body may be: the error envelope with key and message, the
\* same with a hint, an envelope whose message is empty, or anything else.
Bodies == {"envelope", "envelope+hint", "envelope-no-message", "other"}

NoAnswer == [doErr |-> FALSE, status |-> 200, body |-> "other"]

\* What one attempt may come back with: a connection failure, or a response.
Answers ==
    {[doErr |-> TRUE, status |-> 200, body |-> "other"]}
    \cup {[doErr |-> FALSE, status |-> st, body |-> b] : st \in Statuses, b \in Bodies}

\* New: a negative RetryMax disables retries, zero takes the default.
RetryMaxNegativeIsDefault(cfg) == IF cfg <= 0 THEN DefaultRetryMax ELSE cfg
RetryMaxOf(cfg) ==
    IF cfg < 0 THEN 0
    ELSE IF cfg = 0 THEN DefaultRetryMax
    ELSE cfg

\* retryablehttp.DefaultRetryPolicy, which New installs as CheckRetry: a
\* connection failure and a 429 are retried without an error, a 5xx other
\* than 501 is retried with the error "unexpected HTTP status".
CheckRetry(a) ==
    IF a.doErr THEN [retry |-> TRUE, err |-> FALSE]
    ELSE IF a.status = 429 THEN [retry |-> TRUE, err |-> FALSE]
    ELSE IF a.status >= 500 /\ a.status # 501 THEN [retry |-> TRUE, err |-> TRUE]
    ELSE [retry |-> FALSE, err |-> FALSE]

\* Request on a response the transport returned: a status >= 400 becomes an
\* error with the envelope's key, message and hint when the body decodes to
\* an envelope with a message, and an error with the raw status and body
\* otherwise.
ClassifyWithoutEnvelope(a) ==
    IF a.status >= 400 THEN "status error" ELSE "ok"
Classify(a) ==
    IF a.status >= 400
    THEN IF a.body = "envelope" THEN "api error"
         ELSE IF a.body = "envelope+hint" THEN "api error with hint"
         ELSE "status error"
    ELSE "ok"

OnlyRetry == UNCHANGED <<sessVars, newVars, updVars, entVars, cfgVars, blkVars, expVars, secVars, impVars>>

RetryIdle ==
    /\ cfgRetryMax = 0 /\ retryMax = 0 /\ rpc = "idle" /\ i = 0 /\ attempts = 0
    /\ seen = {} /\ last = NoAnswer /\ shouldRetry = FALSE /\ checkErr = FALSE
    /\ result = ""

RetryInit ==
    /\ cfgRetryMax \in -1..MaxRetryCfg
    /\ retryMax = 0 /\ rpc = "new" /\ i = 0 /\ attempts = 0
    /\ seen = {} /\ last = NoAnswer /\ shouldRetry = FALSE /\ checkErr = FALSE
    /\ result = ""

\* New sets the transport's retry bound.
NewRetryMax ==
    /\ OnlyRetry
    /\ rpc = "new"
    /\ retryMax' = RetryMaxOf(cfgRetryMax)
    /\ rpc' = "do"
    /\ UNCHANGED <<cfgRetryMax, i, attempts, seen, last, shouldRetry, checkErr, result>>

\* One turn of the loop of Do: an attempt, CheckRetry's verdict, and the
\* break when the verdict is not to retry or no retry remains.
RetryDo ==
    /\ OnlyRetry
    /\ rpc = "do"
    /\ attempts' = attempts + 1
    /\ \E a \in Answers :
          /\ last' = a
          /\ seen' = seen \cup {[doErr |-> a.doErr, status |-> a.status]}
          /\ shouldRetry' = CheckRetry(a).retry
          /\ checkErr' = CheckRetry(a).err
          /\ IF CheckRetry(a).retry /\ retryMax - i > 0
             THEN i' = i + 1 /\ rpc' = "do"
             ELSE i' = i /\ rpc' = "after"
    /\ UNCHANGED <<cfgRetryMax, retryMax, result>>

\* The end of Do and of Request: Do returns the response when the last
\* attempt came back, CheckRetry gave no error and did not ask for a retry,
\* and the error "giving up after N attempt(s)" otherwise.
RequestClassify ==
    /\ OnlyRetry
    /\ rpc = "after"
    /\ result' = IF ~last.doErr /\ ~checkErr /\ ~shouldRetry
                 THEN Classify(last)
                 ELSE "giving up"
    /\ rpc' = "done"
    /\ UNCHANGED <<cfgRetryMax, retryMax, i, attempts, seen, last, shouldRetry, checkErr>>

RetryNext == NewRetryMax \/ RetryDo \/ RequestClassify

(***************************************************************************)
(* New: the endpoint.  url.Parse is modelled on the characters the         *)
(* endpoints below are made of (letters, a digit, ':' and '/'); none of    *)
(* them has a query, a fragment, user information, a bracketed host or an  *)
(* escape, so those branches of the parser are left out.                   *)
(***************************************************************************)

Letters == {"h", "t", "p", "a", "i"}
Digits == {"8"}

Http == <<"h", "t", "t", "p">>
Api == <<"a", "p", "i">>
Auth == <<"a", "u", "t", "h">>

\* The endpoints a configuration may name: a scheme part, an authority part
\* and a path part, each possibly absent or malformed.
SchemeParts == {<<>>, Http \o <<":">>, <<":">>}
AuthorityParts ==
    {<<>>, <<"/", "/", "h">>, <<"/", "/", "h", ":", "8">>, <<"/", "/", "h", ":", "p">>,
     <<"h">>, <<"8", ":", "8">>}
PathParts ==
    {<<>>, <<"/">>, <<"/", "a">>, <<"/", "a", "/">>, <<"/">> \o Api,
     <<"/">> \o Api \o <<"/">>, <<"/", "a", "/">> \o Api}
Endpoints == {sc \o au \o pa : sc \in SchemeParts, au \in AuthorityParts, pa \in PathParts}

HasPrefix(s, t) == Len(s) >= Len(t) /\ SubSeq(s, 1, Len(t)) = t
Drop(s, k) == SubSeq(s, k + 1, Len(s))

\* strings.Index for one character: 0 when it does not occur.
RECURSIVE IndexFrom(_, _, _)
IndexFrom(s, c, k) ==
    IF k > Len(s) THEN 0
    ELSE IF s[k] = c THEN k
    ELSE IndexFrom(s, c, k + 1)
Index(s, c) == IndexFrom(s, c, 1)

RECURSIVE LastIndexFrom(_, _, _)
LastIndexFrom(s, c, k) ==
    IF k < 1 THEN 0
    ELSE IF s[k] = c THEN k
    ELSE LastIndexFrom(s, c, k - 1)
LastIndex(s, c) == LastIndexFrom(s, c, Len(s))

\* The non-empty segments of a path.
RECURSIVE Segments(_)
Segments(s) ==
    IF s = <<>> THEN <<>>
    ELSE IF s[1] = "/" THEN Segments(Tail(s))
    ELSE LET k == Index(s, "/")
         IN IF k = 0 THEN <<s>>
            ELSE <<SubSeq(s, 1, k - 1)>> \o Segments(Drop(s, k))

\* url.getScheme
RECURSIVE getSchemeAt(_, _)
getSchemeAt(rawURL, k) ==
    IF k > Len(rawURL) THEN [ok |-> TRUE, scheme |-> <<>>, rest |-> rawURL]
    ELSE IF rawURL[k] \in Letters THEN getSchemeAt(rawURL, k + 1)
    ELSE IF rawURL[k] \in Digits
    THEN IF k = 1 THEN [ok |-> TRUE, scheme |-> <<>>, rest |-> rawURL]
         ELSE getSchemeAt(rawURL, k + 1)
    ELSE IF rawURL[k] = ":"
    THEN IF k = 1 THEN [ok |-> FALSE, scheme |-> <<>>, rest |-> <<>>]
         ELSE [ok |-> TRUE, scheme |-> SubSeq(rawURL, 1, k - 1), rest |-> Drop(rawURL, k)]
    ELSE [ok |-> TRUE, scheme |-> <<>>, rest |-> rawURL]
getScheme(rawURL) == getSchemeAt(rawURL, 1)

\* url.validOptionalPort on what follows the last ':' of the host.
validOptionalPort(port) == \A k \in 1..Len(port) : port[k] \in Digits

\* url.parseHost: the port after the last ':' must be digits.
validHost(host) ==
    LastIndex(host, ":") = 0 \/ validOptionalPort(Drop(host, LastIndex(host, ":")))

NoURL == [ok |-> FALSE, scheme |-> <<>>, opaque |-> <<>>, host |-> <<>>, path |-> <<>>]
URL(scheme, opaque, host, path) ==
    [ok |-> TRUE, scheme |-> scheme, opaque |-> opaque, host |-> host, path |-> path]

\* url.Parse
Parse(rawURL) ==
    LET g == getScheme(rawURL)
        rest == g.rest
        a == Drop(rest, 2)
        k == Index(a, "/")
        authority == IF k = 0 THEN a ELSE SubSeq(a, 1, k - 1)
        afterAuthority == IF k = 0 THEN <<>> ELSE Drop(a, k - 1)
        firstSegment == IF Index(rest, "/") = 0 THEN rest
                        ELSE SubSeq(rest, 1, Index(rest, "/") - 1)
    IN  IF ~g.ok THEN NoURL
        ELSE IF ~HasPrefix(rest, <<"/">>)
        THEN IF g.scheme # <<>> THEN URL(g.scheme, rest, <<>>, <<>>)
             ELSE IF Index(firstSegment, ":") # 0 THEN NoURL
             ELSE URL(<<>>, <<>>, <<>>, rest)
        ELSE IF (g.scheme # <<>> \/ ~HasPrefix(rest, <<"/", "/", "/">>))
                /\ HasPrefix(rest, <<"/", "/">>)
        THEN IF validHost(authority) THEN URL(g.scheme, <<>>, authority, afterAuthority)
             ELSE NoURL
        ELSE URL(g.scheme, <<>>, <<>>, rest)

\* New: "Ensure the URL has a path for the API".
ApiPath(path) ==
    IF path = <<>> THEN <<"/">> \o Api
    ELSE IF path[Len(path)] # "/" THEN path \o <<"/">> \o Api
    ELSE path

\* URL.JoinPath: path.Join of the base path and the element.
JoinPath(u, elem) ==
    [rooted |-> HasPrefix(u.path, <<"/">>), segments |-> Segments(u.path) \o <<elem>>]

\* What the HTTP client needs of a URL to send a request at all.
Sendable(u) == u.scheme = Http /\ u.opaque = <<>> /\ u.host # <<>>

NoPath == [rooted |-> FALSE, segments |-> <<>>]
OnlyNew == UNCHANGED <<sessVars, retryVars, updVars, entVars, cfgVars, blkVars, expVars, secVars, impVars>>

NewIdle ==
    /\ url = <<>> /\ npc = "idle" /\ newErr = "" /\ baseURL = NoURL
    /\ reqPath = NoPath /\ reqErr = ""

NewInit ==
    /\ url \in Endpoints
    /\ npc = "new" /\ newErr = "" /\ baseURL = NoURL
    /\ reqPath = NoPath /\ reqErr = ""

\* New, up to the base URL: an empty endpoint and one url.Parse rejects are
\* errors, any other is kept with its path normalised.
NewBaseURL ==
    /\ OnlyNew
    /\ npc = "new"
    /\ IF url = <<>>
       THEN npc' = "failed" /\ newErr' = "Pi-hole URL is required" /\ baseURL' = NoURL
       ELSE IF ~Parse(url).ok
       THEN npc' = "failed" /\ newErr' = "invalid Pi-hole URL" /\ baseURL' = NoURL
       ELSE /\ npc' = "ready"
            /\ newErr' = ""
            /\ baseURL' = [Parse(url) EXCEPT !.path = ApiPath(Parse(url).path)]
    /\ UNCHANGED <<url, reqPath, reqErr>>

\* The first request of a constructed client (the probe of
\* authenticateLocked): the URL is the base joined with "auth", and the
\* transport refuses a URL without an http scheme or without a host.
FirstRequest ==
    /\ OnlyNew
    /\ npc = "ready"
    /\ npc' = "requested"
    /\ reqPath' = JoinPath(baseURL, Auth)
    /\ reqErr' = IF Sendable(baseURL) THEN "" ELSE "failed to check auth status"
    /\ UNCHANGED <<url, newErr, baseURL>>

NewNext == NewBaseURL \/ FirstRequest

(***************************************************************************)
(* UpdateGroup, UpdateClient, UpdateDomain, UpdateList.                    *)
(*                                                                         *)
(* An identity is the tuple of fields that names an entity on the remote:  *)
(* <<name>> for a group, <<client>> for a client, <<type, kind, domain>>   *)
(* for a domain, <<type, address>> for a list.  The provider's schema      *)
(* keeps every identity field non-empty.                                   *)
(***************************************************************************)

Families == {"groups", "clients", "domains", "lists"}
Names == {"a", "b"}
Identities(f) ==
    CASE f = "groups" -> {<<n>> : n \in Names}
      [] f = "clients" -> {<<n>> : n \in Names}
      [] f = "domains" -> {<<t, k, n>> : t \in {"allow", "deny"}, k \in {"exact", "regex"}, n \in Names}
      [] f = "lists" -> {<<t, n>> : t \in {"allow", "block"}, n \in Names}

\* The records the remote may hold or return for a family.
Records(f) == [id : Identities(f), enabled : BOOLEAN]

RECURSIVE SeqsUpTo(_, _)
SeqsUpTo(S, n) ==
    IF n = 0 THEN {<<>>}
    ELSE SeqsUpTo(S, n - 1) \cup {Append(q, x) : q \in {r \in SeqsUpTo(S, n - 1) : Len(r) = n - 1}, x \in S}

\* What the remote may answer to a PUT or a GET of a family: an error, a
\* body that does not parse, or a body with up to MaxRecords records.
NoReply == [kind |-> "none", records |-> <<>>]
Replies(f) ==
    {[kind |-> "error", records |-> <<>>], [kind |-> "unparseable", records |-> <<>>]}
    \cup {[kind |-> "ok", records |-> q] : q \in SeqsUpTo(Records(f), MaxRecords)}

\* The request an operation sends: the path segments and the type query.
NoRequest == [segments |-> <<>>, type |-> ""]

\* The path of the PUT names the entity by its original identity.
UpdatePath(f, id) ==
    CASE f = "groups" -> [segments |-> <<"groups", id[1]>>, type |-> ""]
      [] f = "clients" -> [segments |-> <<"clients", id[1]>>, type |-> ""]
      [] f = "domains" -> [segments |-> <<"domains", id[1], id[2], id[3]>>, type |-> ""]
      [] f = "lists" -> [segments |-> <<"lists", id[2]>>, type |-> id[1]]

\* The names of the identity fields, in the order of the identity tuple.
IdentityFields(f) ==
    CASE f = "groups" -> <<"name">>
      [] f = "clients" -> <<"client">>
      [] f = "domains" -> <<"type", "kind", "domain">>
      [] f = "lists" -> <<"type", "address">>

\* The identity fields the payload of the PUT carries: the group's name, the
\* client's identifier, the domain's pattern and, when type or kind changed,
\* both of them; the list's address.
UpdatePayload(f, orig, new) ==
    CASE f = "groups" -> {<<"name", new[1]>>}
      [] f = "clients" -> {<<"client", new[1]>>}
      [] f = "domains" ->
            {<<"domain", new[3]>>}
            \cup (IF new[1] # orig[1] \/ new[2] # orig[2]
                  THEN {<<"type", new[1]>>, <<"kind", new[2]>>}
                  ELSE {})
      [] f = "lists" -> {<<"address", new[2]>>}

\* GetGroups, GetClients, GetDomains, GetLists: the request for one identity.
\* An empty field is left out of the path, so the request then names a
\* collection.
NonEmpty(fields) == SelectSeq(fields, LAMBDA x : x # "")
GetPath(f, id) ==
    CASE f = "groups" -> [segments |-> <<"groups">> \o NonEmpty(<<id[1]>>), type |-> ""]
      [] f = "clients" -> [segments |-> <<"clients">> \o NonEmpty(<<id[1]>>), type |-> ""]
      [] f = "domains" -> [segments |-> <<"domains">> \o NonEmpty(<<id[1], id[2], id[3]>>), type |-> ""]
      [] f = "lists" -> [segments |-> <<"lists">> \o NonEmpty(<<id[2]>>), type |-> id[1]]

\* GetGroup and GetClient return the first record of the answer; GetDomain
\* and GetList return the first record whose identity is the one asked for.
RECURSIVE FirstMatch(_, _)
FirstMatch(records, id) ==
    IF records = <<>> THEN <<>>
    ELSE IF Head(records).id = id THEN <<Head(records)>>
    ELSE FirstMatch(Tail(records), id)

GetOne(f, records, id) ==
    IF f \in {"groups", "clients"}
    THEN IF records = <<>> THEN <<>> ELSE <<Head(records)>>
    ELSE FirstMatch(records, id)

\* The identity the follow-up fetch asks for.
RefetchByOriginal(orig, new) == orig
RefetchIdentity(orig, new) == new

NoResult == [kind |-> "none", record |-> <<>>, msg |-> ""]
Failed(msg) == [kind |-> "error", record |-> <<>>, msg |-> msg]
Returned(record) == [kind |-> "ok", record |-> <<record>>, msg |-> ""]

OnlyUpdate == UNCHANGED <<sessVars, retryVars, newVars, entVars, cfgVars, blkVars, expVars, secVars, impVars>>

UpdIdle ==
    /\ family = "none" /\ original = <<>> /\ entity = <<>> /\ upc = "idle"
    /\ putPath = NoRequest /\ putBody = {} /\ echo = NoReply /\ fetches = <<>>
    /\ fetched = NoReply /\ updated = NoResult

UpdInit ==
    /\ family \in Families
    /\ original \in Identities(family)
    /\ entity \in Identities(family)
    /\ upc = "put"
    /\ putPath = NoRequest /\ putBody = {} /\ echo = NoReply /\ fetches = <<>>
    /\ fetched = NoReply /\ updated = NoResult

\* Update, up to the answer to the PUT: an error and an unparseable body are
\* returned as errors, a body with records returns the first of them, and a
\* body without records goes on to the follow-up fetch.
UpdatePut ==
    /\ OnlyUpdate
    /\ upc = "put"
    /\ putPath' = UpdatePath(family, original)
    /\ putBody' = UpdatePayload(family, original, entity)
    /\ \E r \in {x \in Replies(family) : Len(x.records) <= 1} :
          /\ echo' = r
          /\ IF r.kind = "error"
             THEN upc' = "done" /\ updated' = Failed("request failed")
             ELSE IF r.kind = "unparseable"
             THEN upc' = "done" /\ updated' = Failed("failed to parse update response")
             ELSE IF r.records = <<>>
             THEN upc' = "fetch" /\ updated' = updated
             ELSE upc' = "done" /\ updated' = Returned(r.records[1])
    /\ UNCHANGED <<family, original, entity, fetches, fetched>>

\* Update, the follow-up fetch: one Get by the new identity; its failure and
\* its finding nothing are errors, the record it finds is returned.
UpdateFetch ==
    /\ OnlyUpdate
    /\ upc = "fetch"
    /\ upc' = "done"
    /\ LET id == RefetchIdentity(original, entity)
       IN /\ fetches' = Append(fetches, GetPath(family, id))
          /\ \E r \in Replies(family) :
                /\ fetched' = r
                /\ IF r.kind # "ok"
                   THEN updated' = Failed("failed to fetch updated entity")
                   ELSE IF GetOne(family, r.records, id) = <<>>
                   THEN updated' = Failed("no entity returned in response and updated entity not found")
                   ELSE updated' = Returned(GetOne(family, r.records, id)[1])
    /\ UNCHANGED <<family, original, entity, putPath, putBody, echo>>

UpdNext == UpdatePut \/ UpdateFetch

(***************************************************************************)
(* Create, Get and Delete of groups, clients, domains and lists, against   *)
(* a remote that holds records.  An entity is its identity tuple, its      *)
(* enabled flag and its comment; a record is an entity with the id the     *)
(* remote assigned.  Identity fields may be empty here: the client's       *)
(* operations take whatever strings they are given.                        *)
(***************************************************************************)

EntityIds(f) ==
    CASE f = "groups" -> {<<n>> : n \in {"", "a"}}
      [] f = "clients" -> {<<n>> : n \in {"", "a"}}
      [] f = "domains" -> {<<t, k, n>> : t \in {"", "allow"}, k \in {"", "exact"}, n \in {"", "a"}}
      [] f = "lists" -> {<<t, n>> : t \in {"", "allow"}, n \in {"", "a"}}

\* A client has no enabled flag.
Entities(f) ==
    [id : EntityIds(f), enabled : IF f = "clients" THEN {TRUE} ELSE BOOLEAN, comment : {"", "c"}]

HasEmptyField(id) == \E k \in 1..Len(id) : id[k] = ""

\* An identity that shares part of its key with id: another name for a
\* group or a client, the other type for a domain or a list.
NeighbourId(f, id) ==
    CASE f = "groups" -> IF id = <<"b">> THEN <<"a">> ELSE <<"b">>
      [] f = "clients" -> IF id = <<"b">> THEN <<"a">> ELSE <<"b">>
      [] f = "domains" -> <<IF id[1] = "deny" THEN "allow" ELSE "deny", id[2], id[3]>>
      [] f = "lists" -> <<IF id[1] = "block" THEN "allow" ELSE "block", id[2]>>

StoredAs(id, enabled, comment, rid) ==
    [id |-> id, enabled |-> enabled, comment |-> comment, rid |-> rid]

\* The request of an operation: method, path segments and type query.
NoEntityRequest == [method |-> "none", segments |-> <<>>, type |-> ""]
EntityRequest(method, segments, type) ==
    [method |-> method, segments |-> segments, type |-> type]

\* The answer to a request: a transport failure, or a status with a body
\* that is a record array, an error envelope or something else.
AnswerOf(kind, status, body, records) ==
    [doErr |-> kind = "fail", status |-> status, body |-> body, records |-> records]
NoEntityAnswer == AnswerOf("none", 0, "other", <<>>)

\* Request on the last answer of the retrying transport: a transport
\* failure and a status the policy still wants retried end in the
\* transport's error, a status >= 400 in the remote's error, any other in
\* the body.
RequestOutcome(a) ==
    IF a.doErr THEN "request failed"
    ELSE IF CheckRetry(a).retry THEN "giving up"
    ELSE Classify(a)

\* CreateGroup and CreateClient check nothing; CreateDomain requires type
\* and kind, CreateList requires type.
CreateRejects(f, e) ==
    CASE f = "groups" -> FALSE
      [] f = "clients" -> FALSE
      [] f = "domains" -> e.id[1] = "" \/ e.id[2] = ""
      [] f = "lists" -> e.id[1] = ""

\* The payload of a Create, as <<field, value>> pairs: a comment only when
\* it is not empty, the enabled flag as it is (a client has none).
CreatePayloadWithoutComment(f, e) ==
    {<<IdentityFields(f)[Len(e.id)], e.id[Len(e.id)]>>}
    \cup (IF f # "clients" THEN {<<"enabled", e.enabled>>} ELSE {})
CreatePayload(f, e) ==
    {<<IdentityFields(f)[Len(e.id)], e.id[Len(e.id)]>>}
    \cup (IF f # "clients" THEN {<<"enabled", e.enabled>>} ELSE {})
    \cup (IF e.comment # "" THEN {<<"comment", e.comment>>} ELSE {})

\* The path of a Create: the collection, with a domain's type and kind as
\* segments and a list's type as the query.
CreatePath(f, e) ==
    CASE f = "groups" -> EntityRequest("POST", <<"groups">>, "")
      [] f = "clients" -> EntityRequest("POST", <<"clients">>, "")
      [] f = "domains" -> EntityRequest("POST", <<"domains", e.id[1], e.id[2]>>, "")
      [] f = "lists" -> EntityRequest("POST", <<"lists">>, e.id[1])

\* What a field of a payload is, or a default when the payload has none.
PayloadValue(payload, field, default) ==
    IF \E pr \in payload : pr[1] = field
    THEN (CHOOSE pr \in payload : pr[1] = field)[2]
    ELSE default

\* The record a remote that stores what it is sent makes of a POST: the
\* identity from the path and the payload, enabled (a client is always so;
\* false unless sent for the others) and comment (empty unless sent) from
\* the payload.
RemoteRecord(f, req, payload, rid) ==
    LET name == PayloadValue(payload, IdentityFields(f)[Len(IdentityFields(f))], "")
        id == CASE f = "groups" -> <<name>>
                [] f = "clients" -> <<name>>
                [] f = "domains" -> <<req.segments[2], req.segments[3], name>>
                [] f = "lists" -> <<req.type, name>>
    IN StoredAs(id, PayloadValue(payload, "enabled", f = "clients"),
                PayloadValue(payload, "comment", ""), rid)

\* What a Create makes of the answer to its POST.
CreateResult(a) ==
    IF RequestOutcome(a) # "ok" THEN Failed(RequestOutcome(a))
    ELSE IF a.body # "records" THEN Failed("failed to parse create response")
    ELSE IF a.records = <<>> THEN Failed("no entity returned in response")
    ELSE Returned(a.records[1])

\* One operation as the history keeps it.
OpRecord(name, sent, req, payload, a, faithful, res) ==
    [op |-> name, sent |-> sent, req |-> req, payload |-> payload, answer |-> a,
     faithful |-> faithful, result |-> res]

\* The history after one more operation: the last two are kept.
Remember(r) == IF Len(hist) < 2 THEN Append(hist, r) ELSE <<hist[2], r>>

OnlyEntity == UNCHANGED <<sessVars, retryVars, newVars, updVars, cfgVars, blkVars, expVars, secVars, impVars>>

EntIdle ==
    /\ efamily = "none" /\ target = StoredAs(<<>>, FALSE, "", 0)
    /\ store = {} /\ nextId = 0 /\ opsDone = 0 /\ hist = <<>>

\* The remote starts with one record next to the target and, when the
\* target's identity is complete, with or without a record of the target.
EntInit ==
    /\ efamily \in Families
    /\ \E e \in Entities(efamily) : target = e
    /\ \E withTarget \in BOOLEAN :
          /\ withTarget => ~HasEmptyField(target.id)
          /\ store = {StoredAs(NeighbourId(efamily, target.id), TRUE, "", 1)}
                     \cup (IF withTarget
                           THEN {StoredAs(target.id, target.enabled, target.comment, 2)}
                           ELSE {})
    /\ nextId = 3
    /\ opsDone = 0
    /\ hist = <<>>

\* The answers a remote may give to a POST besides storing the record.
CreateRefusals ==
    {AnswerOf("fail", 0, "other", <<>>), AnswerOf("status", 400, "envelope", <<>>),
     AnswerOf("status", 200, "other", <<>>), AnswerOf("status", 200, "records", <<>>)}

\* Create: an entity the operation rejects is an error without a request;
\* any other is POSTed, and the remote either stores it (when it has every
\* identity field and is not yet there) and answers with the record, or
\* refuses.
Create ==
    /\ OnlyEntity
    /\ opsDone < MaxOps
    /\ opsDone' = opsDone + 1
    /\ IF CreateRejects(efamily, target)
       THEN /\ hist' = Remember(OpRecord("Create", 0, NoEntityRequest, {}, NoEntityAnswer,
                                            FALSE, Failed("identity field required")))
            /\ UNCHANGED <<store, nextId>>
       ELSE LET req == CreatePath(efamily, target)
                payload == CreatePayload(efamily, target)
                rec == RemoteRecord(efamily, req, payload, nextId)
            IN \/ /\ ~HasEmptyField(rec.id)
                  /\ \A r \in store : r.id # rec.id
                  /\ store' = store \cup {rec}
                  /\ nextId' = nextId + 1
                  /\ hist' = Remember(OpRecord("Create", 1, req, payload,
                                 AnswerOf("status", 201, "records", <<rec>>), TRUE,
                                 CreateResult(AnswerOf("status", 201, "records", <<rec>>))))
               \/ \E a \in CreateRefusals :
                     /\ hist' = Remember(OpRecord("Create", 1, req, payload, a, FALSE,
                                                      CreateResult(a)))
                     /\ UNCHANGED <<store, nextId>>
    /\ UNCHANGED <<efamily, target>>

\* What a Get of one entity makes of the answer to its GET.
NotFound == [kind |-> "not found", record |-> <<>>, msg |-> ""]
GetResult(f, a, id) ==
    IF RequestOutcome(a) # "ok" THEN Failed(RequestOutcome(a))
    ELSE IF a.body # "records" THEN Failed("failed to parse response")
    ELSE IF GetOne(f, a.records, id) = <<>> THEN NotFound
    ELSE Returned(GetOne(f, a.records, id)[1])

\* What a remote may answer to a GET whatever it holds: a failure, an
\* error, a body that does not parse, or up to MaxRecords records with the
\* identity asked for or with the neighbouring one.
GetAnswers(f, id) ==
    {AnswerOf("fail", 0, "other", <<>>), AnswerOf("status", 404, "envelope", <<>>),
     AnswerOf("status", 200, "other", <<>>)}
    \cup {AnswerOf("status", 200, "records", q) :
             q \in SeqsUpTo({StoredAs(id, TRUE, "", 1), StoredAs(NeighbourId(f, id), TRUE, "", 2)},
                            MaxRecords)}

\* The records of the store a GET by a full identity selects.
Selected(id) == {r \in store : r.id = id}
AsSequence(S) == IF S = {} THEN <<>> ELSE <<CHOOSE r \in S : TRUE>>

\* GetGroup, GetClient, GetDomain, GetList by the target's identity: the
\* remote answers from its store (when the identity is complete) or with
\* any of GetAnswers.
Get ==
    /\ OnlyEntity
    /\ opsDone < MaxOps
    /\ opsDone' = opsDone + 1
    /\ LET p == GetPath(efamily, target.id)
           req == EntityRequest("GET", p.segments, p.type)
           stored == AnswerOf("status", 200, "records", AsSequence(Selected(target.id)))
       IN \/ /\ ~HasEmptyField(target.id)
             /\ hist' = Remember(OpRecord("Get", 1, req, {}, stored, TRUE,
                                              GetResult(efamily, stored, target.id)))
          \/ \E a \in GetAnswers(efamily, target.id) :
                hist' = Remember(OpRecord("Get", 1, req, {}, a, FALSE,
                                              GetResult(efamily, a, target.id)))
    /\ UNCHANGED <<efamily, target, store, nextId>>

\* The path of a Delete names the entity by its identity.
DeletePath(f, id) ==
    CASE f = "groups" -> EntityRequest("DELETE", <<"groups", id[1]>>, "")
      [] f = "clients" -> EntityRequest("DELETE", <<"clients", id[1]>>, "")
      [] f = "domains" -> EntityRequest("DELETE", <<"domains", id[1], id[2], id[3]>>, "")
      [] f = "lists" -> EntityRequest("DELETE", <<"lists", id[2]>>, id[1])

\* A Delete returns the error of the request, or nothing.
Deleted == [kind |-> "ok", record |-> <<>>, msg |-> ""]
DeleteResultNotFoundIsSuccess(a) ==
    IF RequestOutcome(a) = "ok" \/ (~a.doErr /\ a.status = 404) THEN Deleted
    ELSE Failed(RequestOutcome(a))
DeleteResult(a) ==
    IF RequestOutcome(a) = "ok" THEN Deleted ELSE Failed(RequestOutcome(a))

\* What a remote may answer to a DELETE whatever it holds.
DeleteAnswers ==
    {AnswerOf("fail", 0, "other", <<>>), AnswerOf("status", 304, "other", <<>>),
     AnswerOf("status", 400, "envelope", <<>>), AnswerOf("status", 404, "other", <<>>),
     AnswerOf("status", 500, "other", <<>>)}

\* DeleteGroup, DeleteClient, DeleteDomain, DeleteList of the target: the
\* remote removes the record and answers 204, or answers not found when it
\* holds none (when the identity is complete), or answers with any of
\* DeleteAnswers.
Delete ==
    /\ OnlyEntity
    /\ opsDone < MaxOps
    /\ opsDone' = opsDone + 1
    /\ LET req == DeletePath(efamily, target.id)
           gone == AnswerOf("status", 204, "other", <<>>)
           missing == AnswerOf("status", 404, "envelope", <<>>)
       IN \/ /\ ~HasEmptyField(target.id)
             /\ IF Selected(target.id) # {}
                THEN /\ store' = store \ Selected(target.id)
                     /\ hist' = Remember(OpRecord("Delete", 1, req, {}, gone, TRUE,
                                                  DeleteResult(gone)))
                ELSE /\ store' = store
                     /\ hist' = Remember(OpRecord("Delete", 1, req, {}, missing, TRUE,
                                                  DeleteResult(missing)))
          \/ \E a \in DeleteAnswers :
                /\ store' = store
                /\ hist' = Remember(OpRecord("Delete", 1, req, {}, a, FALSE, DeleteResult(a)))
    /\ UNCHANGED <<efamily, target, nextId>>

EntNext == Create \/ Get \/ Delete

(***************************************************************************)
(* The configuration: UpdateConfig, and the items of the array-valued      *)
(* settings (upstream servers, static leases, CNAME records, local-DNS     *)
(* hosts) with the existence check the resources' Read makes.              *)
(***************************************************************************)

Sections == {"dns", "dhcp", "misc"}
\* The values an UpdateConfig may carry: any set of these keys.
ConfigValues ==
    UNION {[ks -> {"v"}] : ks \in SUBSET {"privacy_level", "active"}}

Settings == {"upstream", "lease", "cname", "localdns"}

\* The array a setting's items are added to and removed from.
ArrayPath(st) ==
    CASE st = "upstream" -> <<"dns", "upstreams">>
      [] st = "lease" -> <<"dhcp", "hosts">>
      [] st = "cname" -> <<"dns", "cnameRecords">>
      [] st = "localdns" -> <<"dns", "hosts">>

\* The array the existence check of a setting scans: the field of the
\* section its Read fetches.
ScannedArrayDNSHosts(st) == <<"dns", "hosts">>
ScannedArray(st) ==
    CASE st = "upstream" -> <<"dns", "upstreams">>
      [] st = "lease" -> <<"dhcp", "hosts">>
      [] st = "cname" -> <<"dns", "cnameRecords">>
      [] st = "localdns" -> <<"dns", "hosts">>

ArrayPaths == {ArrayPath(st) : st \in Settings}

\* The formatted values: a bare value, "MAC,IP,hostname"-like and
\* "IP hostname"-like values, and one with a slash in it.
Items == {<<"x">>, <<"x", ",", "y">>, <<"x", " ", "y">>, <<"x", "/", "y">>}

\* url.PathEscape, on these characters.
RECURSIVE PathEscape(_)
PathEscape(v) ==
    IF v = <<>> THEN <<>>
    ELSE (CASE Head(v) = "," -> <<"%", "2", "C">>
            [] Head(v) = " " -> <<"%", "2", "0">>
            [] Head(v) = "/" -> <<"%", "2", "F">>
            [] OTHER -> <<Head(v)>>) \o PathEscape(Tail(v))

\* The remote's decoding of a path segment.
RECURSIVE PathUnescape(_)
PathUnescape(v) ==
    IF v = <<>> THEN <<>>
    ELSE IF Head(v) = "%" /\ Len(v) >= 3
    THEN (CASE SubSeq(v, 2, 3) = <<"2", "C">> -> <<",">>
            [] SubSeq(v, 2, 3) = <<"2", "0">> -> <<" ">>
            [] SubSeq(v, 2, 3) = <<"2", "F">> -> <<"/">>
            [] OTHER -> <<"%">>) \o PathUnescape(Drop(v, 3))
    ELSE <<Head(v)>> \o PathUnescape(Tail(v))

\* The endpoint of an item: "config/<path>/<value>", as the segments the
\* request's path has; the value is escaped, so it is one segment.
ItemEndpoint(st, v) ==
    <<<<"config">>, <<ArrayPath(st)[1]>>, <<ArrayPath(st)[2]>>>> \o Segments(PathEscape(v))

\* UpdateConfig's body: {"config": {section: values}}.
UpdateConfigBodyAllSections(section, values) ==
    [top \in {"config"} |-> [sec \in Sections |-> IF sec = section THEN values ELSE <<>>]]
UpdateConfigBody(section, values) ==
    [top \in {"config"} |-> [sec \in {section} |-> values]]

ConfigRequest(method, segments, body) ==
    [method |-> method, segments |-> segments, body |-> body]

\* One configuration operation as the history keeps it.
ConfigOp(name, section, values, sent, ok, found) ==
    [op |-> name, section |-> section, values |-> values, sent |-> sent, ok |-> ok,
     found |-> found]

CfgRemember(r) == IF Len(cfgHist) < 2 THEN Append(cfgHist, r) ELSE <<cfgHist[2], r>>

OnlyConfig == UNCHANGED <<sessVars, retryVars, newVars, updVars, entVars, blkVars, expVars, secVars, impVars>>

CfgIdle ==
    /\ setting = "none" /\ item = <<>> /\ arrays = <<>> /\ cfgOps = 0 /\ cfgHist = <<>>

\* The remote's arrays start empty, or with the item already in the arrays
\* of the other settings.
CfgInit ==
    /\ setting \in Settings
    /\ item \in Items
    /\ \E elsewhere \in BOOLEAN :
          arrays = [ap \in ArrayPaths |->
                       IF elsewhere /\ ap # ArrayPath(setting) THEN {item} ELSE {}]
    /\ cfgOps = 0
    /\ cfgHist = <<>>

\* UpdateConfig: one PATCH to "config"; the remote accepts it or not.
UpdateConfig ==
    /\ OnlyConfig
    /\ cfgOps < MaxOps
    /\ cfgOps' = cfgOps + 1
    /\ \E section \in Sections, values \in ConfigValues, ok \in BOOLEAN :
          cfgHist' = CfgRemember(ConfigOp("UpdateConfig", section, values,
                        <<ConfigRequest("PATCH", <<<<"config">>>>, UpdateConfigBody(section, values))>>,
                        ok, FALSE))
    /\ UNCHANGED <<setting, item, arrays>>

\* The array and the value a remote reads from an item endpoint: the three
\* segments after which one segment, decoded, is the value.
WellFormed(endpoint) ==
    /\ Len(endpoint) = 4
    /\ <<endpoint[2][1], endpoint[3][1]>> \in ArrayPaths

\* AddConfigArrayItem, as the resources' Create calls it: a PUT to the
\* item's endpoint; the remote adds the value to the array, or refuses.
AddConfigArrayItem ==
    /\ OnlyConfig
    /\ cfgOps < MaxOps
    /\ cfgOps' = cfgOps + 1
    /\ LET endpoint == ItemEndpoint(setting, item)
           req == ConfigRequest("PUT", endpoint, <<>>)
       IN \/ /\ WellFormed(endpoint)
             /\ arrays' = [arrays EXCEPT ![<<endpoint[2][1], endpoint[3][1]>>] =
                                            @ \cup {PathUnescape(endpoint[4])}]
             /\ cfgHist' = CfgRemember(ConfigOp("Add", "", <<>>, <<req>>, TRUE, FALSE))
          \/ /\ arrays' = arrays
             /\ cfgHist' = CfgRemember(ConfigOp("Add", "", <<>>, <<req>>, FALSE, FALSE))
    /\ UNCHANGED <<setting, item>>

\* DeleteConfigArrayItem, as the resources' Delete calls it.
DeleteConfigArrayItem ==
    /\ OnlyConfig
    /\ cfgOps < MaxOps
    /\ cfgOps' = cfgOps + 1
    /\ LET endpoint == ItemEndpoint(setting, item)
           req == ConfigRequest("DELETE", endpoint, <<>>)
       IN \/ /\ WellFormed(endpoint)
             /\ arrays' = [arrays EXCEPT ![<<endpoint[2][1], endpoint[3][1]>>] =
                                            @ \ {PathUnescape(endpoint[4])}]
             /\ cfgHist' = CfgRemember(ConfigOp("Remove", "", <<>>, <<req>>, TRUE, FALSE))
          \/ /\ arrays' = arrays
             /\ cfgHist' = CfgRemember(ConfigOp("Remove", "", <<>>, <<req>>, FALSE, FALSE))
    /\ UNCHANGED <<setting, item>>

\* The existence check of the resources' Read: fetch the configuration and
\* scan the setting's array for the value.
ItemExists ==
    /\ OnlyConfig
    /\ cfgOps < MaxOps
    /\ cfgOps' = cfgOps + 1
    /\ LET req == ConfigRequest("GET", <<<<"config">>>>, <<>>)
       IN \E ok \in BOOLEAN :
             cfgHist' = CfgRemember(ConfigOp("Exists", "", <<>>, <<req>>, ok,
                                             ok /\ item \in arrays[ScannedArray(setting)]))
    /\ UNCHANGED <<setting, item, arrays>>

CfgNext == UpdateConfig \/ AddConfigArrayItem \/ DeleteConfigArrayItem \/ ItemExists

(***************************************************************************)
(* DNS blocking: SetDNSBlocking and GetDNSBlocking, and the blocking       *)
(* resource that tracks the status and the timer.  A timer is a set: empty *)
(* for none (nil, null), {n} for n seconds.                                *)
(***************************************************************************)

Timers == {{}} \cup {{t} : t \in 1..MaxTimer}

\* DNSBlockingRequest: the timer is left out when there is none.
SetPayloadWithoutTimer(enabled, timer) == [blocking |-> enabled, timer |-> {}]
SetPayload(enabled, timer) == [blocking |-> enabled, timer |-> timer]

\* DNSBlocking, as the client returns it.
BlockingStatus(status, timer) == [blocking |-> status, timer |-> timer]
NoStatus == BlockingStatus("none", {})

\* mapDNSBlockingToModel: the state a Create or Update stores.
NoState == [present |-> FALSE, enabled |-> FALSE, timer |-> {}]
mapDNSBlockingToModel(status) ==
    [present |-> TRUE, enabled |-> status.blocking = "enabled", timer |-> status.timer]

\* Read: the timer of the state is kept unless the remote reports none.
ReadTimerFromRemote(before, reported) == reported
ReadTimer(before, reported) == IF reported = {} THEN {} ELSE before

BlockingOp(name, enabled, timer, wasEnabled, ok, res, before, after) ==
    [op |-> name, enabled |-> enabled, timer |-> timer, wasEnabled |-> wasEnabled,
     ok |-> ok, result |-> res, before |-> before, after |-> after]
NoBlockingOp == BlockingOp("none", FALSE, {}, FALSE, FALSE, NoStatus, {}, {})

OnlyBlocking == UNCHANGED <<sessVars, retryVars, newVars, updVars, entVars, cfgVars, expVars, secVars, impVars>>

BlkIdle ==
    /\ blocking = "none" /\ countdown = {} /\ tracked = NoState /\ lastStored = {}
    /\ running = {} /\ blkOps = 0 /\ blkLast = NoBlockingOp

\* No resource yet; the remote blocks or not, with or without a timer.
BlkInit ==
    /\ blocking \in {"enabled", "disabled"}
    /\ countdown \in Timers
    /\ tracked = NoState
    /\ lastStored = {}
    /\ running = {}
    /\ blkOps = 0
    /\ blkLast = NoBlockingOp

\* Create and Update of the resource: SetDNSBlocking with the planned
\* status and timer; the remote applies the request and answers with its
\* status, which is stored, or the call fails and the state is kept.
SetBlocking(name, enabled, timer) ==
    /\ blkOps < MaxBlockingOps
    /\ blkOps' = blkOps + 1
    /\ LET payload == SetPayload(enabled, timer)
           status == IF payload.blocking THEN "enabled" ELSE "disabled"
           res == BlockingStatus(status, payload.timer)
       IN \/ /\ blocking' = status
             /\ countdown' = payload.timer
             /\ tracked' = mapDNSBlockingToModel(res)
             /\ lastStored' = mapDNSBlockingToModel(res).timer
             /\ running' = IF ~enabled /\ blocking = "enabled" THEN timer ELSE {}
             /\ blkLast' = BlockingOp(name, enabled, timer, blocking = "enabled", TRUE, res,
                                      tracked.timer, mapDNSBlockingToModel(res).timer)
          \/ /\ blkLast' = BlockingOp(name, enabled, timer, blocking = "enabled", FALSE,
                                      NoStatus, tracked.timer, tracked.timer)
             /\ UNCHANGED <<blocking, countdown, tracked, lastStored, running>>

\* What Delete passes to SetDNSBlocking: blocking enabled, no timer.
DeletePostsTracked == [enabled |-> tracked.enabled, timer |-> tracked.timer]
DeletePosts == [enabled |-> TRUE, timer |-> {}]

\* Delete of the resource: SetDNSBlocking(true, nil); on success the
\* resource leaves the state, on an error it stays.
ResourceDelete ==
    /\ OnlyBlocking
    /\ tracked.present
    /\ blkOps < MaxBlockingOps
    /\ blkOps' = blkOps + 1
    /\ LET payload == SetPayload(DeletePosts.enabled, DeletePosts.timer)
           status == IF payload.blocking THEN "enabled" ELSE "disabled"
           res == BlockingStatus(status, payload.timer)
       IN \/ /\ blocking' = status
             /\ countdown' = payload.timer
             /\ tracked' = NoState
             /\ running' = {}
             /\ blkLast' = BlockingOp("Delete", DeletePosts.enabled, DeletePosts.timer,
                                      blocking = "enabled", TRUE, res, tracked.timer, {})
          \/ /\ blkLast' = BlockingOp("Delete", DeletePosts.enabled, DeletePosts.timer,
                                      blocking = "enabled", FALSE, NoStatus, tracked.timer,
                                      tracked.timer)
             /\ UNCHANGED <<blocking, countdown, tracked, running>>
    /\ UNCHANGED lastStored

ResourceCreate ==
    /\ OnlyBlocking
    /\ ~tracked.present
    /\ \E enabled \in BOOLEAN, timer \in Timers : SetBlocking("Create", enabled, timer)

ResourceUpdate ==
    /\ OnlyBlocking
    /\ tracked.present
    /\ \E enabled \in BOOLEAN, timer \in Timers : SetBlocking("Update", enabled, timer)

\* Read of the resource: GetDNSBlocking; the status is taken from the
\* remote, the timer is kept or becomes null.
ResourceRead ==
    /\ OnlyBlocking
    /\ tracked.present
    /\ blkOps < MaxBlockingOps
    /\ blkOps' = blkOps + 1
    /\ LET res == BlockingStatus(blocking, countdown)
       IN \/ /\ tracked' = [present |-> TRUE, enabled |-> res.blocking = "enabled",
                            timer |-> ReadTimer(tracked.timer, res.timer)]
             /\ blkLast' = BlockingOp("Read", FALSE, {}, blocking = "enabled", TRUE, res,
                                      tracked.timer, ReadTimer(tracked.timer, res.timer))
          \/ /\ tracked' = tracked
             /\ blkLast' = BlockingOp("Read", FALSE, {}, blocking = "enabled", FALSE, NoStatus,
                                      tracked.timer, tracked.timer)
    /\ UNCHANGED <<blocking, countdown, lastStored, running>>

\* A second passes on the remote: the timer counts down, and when it
\* elapses the status flips back and the timer is gone.
BlockingTick ==
    /\ OnlyBlocking
    /\ countdown # {}
    /\ LET n == CHOOSE x \in countdown : TRUE
       IN IF n > 1
          THEN countdown' = {n - 1} /\ blocking' = blocking /\ running' = running
          ELSE /\ countdown' = {}
               /\ blocking' = IF blocking = "enabled" THEN "disabled" ELSE "enabled"
               /\ running' = {}
    /\ UNCHANGED <<tracked, lastStored, blkOps, blkLast>>

BlkNext ==
    ResourceCreate \/ ResourceUpdate \/ ResourceRead \/ ResourceDelete \/ BlockingTick

(***************************************************************************)
(* The configuration-section resources (dns, dhcp, misc): updateConfig and *)
(* readConfig, next to the array-item resources that share the sections.   *)
(***************************************************************************)

\* The keys updateConfig puts in the section's values.
AlwaysSent(section) ==
    CASE section = "dns" ->
            {"port", "interface", "listeningMode", "dnssec", "queryLogging", "domainNeeded",
             "expandHosts", "bogusPriv", "CNAMEdeepInspect", "blockESNI", "blockTTL",
             "piholePTR", "replyWhenBusy", "domain", "cache", "blocking", "specialDomains",
             "rateLimit"}
      [] section = "dhcp" ->
            {"active", "start", "end", "router", "netmask", "leaseTime", "ipv6",
             "rapidCommit", "multiDNS", "logging", "ignoreUnknownClients"}
      [] section = "misc" ->
            {"privacylevel", "delay_startup", "nice", "addr2line", "etc_dnsmasq_d",
             "extraLogging", "readOnly", "normalizeCPU", "hide_dnsmasq_warn", "check"}
\* The keys it puts there only when the plan holds a value for them.
SentWhenSet(section) == IF section = "misc" THEN {"dnsmasq_lines"} ELSE {}

SectionKeys(section) == AlwaysSent(section) \cup SentWhenSet(section)

\* The array-valued fields of a section.
ArrayFields(section) == {ap[2] : ap \in {q \in ArrayPaths : q[1] = section}}

\* What the caller may have set: nothing, one field, or every field.
Configured(section) ==
    {{}, SectionKeys(section)} \cup {{k} : k \in SectionKeys(section)}

\* The value the plan holds for a key: the caller's, or the schema's default
\* (the zero value where there is none).
PlanValue(set, k) == IF k \in set THEN "set" ELSE "default"

\* updateConfig: the section's values.
PatchKeysWithArrays(section, set) ==
    AlwaysSent(section) \cup (SentWhenSet(section) \cap set) \cup ArrayFields(section)
PatchKeys(section, set) == AlwaysSent(section) \cup (SentWhenSet(section) \cap set)

SectionPatch(section, set) == [k \in PatchKeys(section, set) |-> PlanValue(set, k)]

\* readConfig and the array-item Reads: the transport fails, or the section
\* pointer is nil and its fields are read, or the fields are read.
ReadOutcome(failed, section) ==
    IF failed THEN "error"
    ELSE IF section \in omits THEN "nil dereference"
    ELSE "read"

\* The array-item Read: the item is in the array or the resource is removed.
ItemOutcome(failed, st) ==
    IF ReadOutcome(failed, ScannedArray(st)[1]) # "read"
    THEN ReadOutcome(failed, ScannedArray(st)[1])
    ELSE IF <<"x">> \in lists[ScannedArray(st)] THEN "present" ELSE "absent"

SectionOp(name, section, set, body, outcome, before, after) ==
    [op |-> name, section |-> section, set |-> set, body |-> body, outcome |-> outcome,
     before |-> before, after |-> after]
NoSectionOp == SectionOp("none", "", {}, <<>>, "", <<>>, <<>>)

OnlySection ==
    UNCHANGED <<sessVars, retryVars, newVars, updVars, entVars, cfgVars, blkVars, expVars,
                impVars>>

SecIdle ==
    /\ managed = "none" /\ sst = "none" /\ omits = {} /\ leafs = <<>> /\ lists = <<>>
    /\ secOps = 0 /\ secLast = NoSectionOp

SecInit ==
    /\ managed \in Sections
    /\ sst \in Settings
    /\ omits \in SUBSET Sections
    /\ leafs = [k \in SectionKeys(managed) |-> "remote"]
    /\ lists \in {[ap \in ArrayPaths |-> IF ap = ArrayPath(sst) /\ there THEN {<<"x">>} ELSE {}] :
                    there \in BOOLEAN}
    /\ secOps = 0
    /\ secLast = NoSectionOp

\* The remote's PATCH of a section: the keys of the body replace what the
\* remote holds, an array-valued key the whole array.
Patched(body) == [k \in DOMAIN leafs |-> IF k \in DOMAIN body THEN body[k] ELSE leafs[k]]
PatchedLists(section, body) ==
    [ap \in ArrayPaths |->
        IF ap[1] = section /\ ap[2] \in DOMAIN body THEN {} ELSE lists[ap]]

\* Create and Update of a configuration-section resource: updateConfig,
\* then readConfig.
SectionApply ==
    /\ OnlySection
    /\ secOps < MaxOps
    /\ secOps' = secOps + 1
    /\ \E set \in Configured(managed), refused \in BOOLEAN, failed \in BOOLEAN :
          LET body == SectionPatch(managed, set)
          IN IF refused
             THEN /\ secLast' = SectionOp("Apply", managed, set, body, "error", lists, lists)
                  /\ UNCHANGED <<leafs, lists>>
             ELSE /\ leafs' = Patched(body)
                  /\ lists' = PatchedLists(managed, body)
                  /\ secLast' = SectionOp("Apply", managed, set, body, ReadOutcome(failed, managed),
                                          lists, PatchedLists(managed, body))
    /\ UNCHANGED <<managed, sst, omits>>

\* Read of a configuration-section resource: readConfig.
SectionRead ==
    /\ OnlySection
    /\ secOps < MaxOps
    /\ secOps' = secOps + 1
    /\ \E failed \in BOOLEAN :
          secLast' = SectionOp("Read", managed, {}, <<>>, ReadOutcome(failed, managed), lists, lists)
    /\ UNCHANGED <<managed, sst, omits, leafs, lists>>

\* Read of an array-item resource.
ItemRead ==
    /\ OnlySection
    /\ secOps < MaxOps
    /\ secOps' = secOps + 1
    /\ \E failed \in BOOLEAN :
          secLast' = SectionOp("ItemRead", ScannedArray(sst)[1], {}, <<>>,
                               ItemOutcome(failed, sst), lists, lists)
    /\ UNCHANGED <<managed, sst, omits, leafs, lists>>

\* Create and Delete of an array-item resource, accepted by the remote.
ItemAdd ==
    /\ OnlySection
    /\ secOps < MaxOps
    /\ secOps' = secOps + 1
    /\ lists' = [lists EXCEPT ![ArrayPath(sst)] = @ \cup {<<"x">>}]
    /\ secLast' = SectionOp("ItemAdd", ArrayPath(sst)[1], {}, <<>>, "ok", lists, lists')
    /\ UNCHANGED <<managed, sst, omits, leafs>>

ItemRemove ==
    /\ OnlySection
    /\ secOps < MaxOps
    /\ secOps' = secOps + 1
    /\ lists' = [lists EXCEPT ![ArrayPath(sst)] = @ \ {<<"x">>}]
    /\ secLast' = SectionOp("ItemRemove", ArrayPath(sst)[1], {}, <<>>, "ok", lists, lists')
    /\ UNCHANGED <<managed, sst, omits, leafs>>

SecNext == SectionApply \/ SectionRead \/ ItemRead \/ ItemAdd \/ ItemRemove

(***************************************************************************)
(* Import of the array-item resources by id string: the static lease       *)
(* "MAC,IP,hostname", the CNAME record "domain,target" and the local-DNS   *)
(* record "IP hostname", and the value the Read after it searches for.     *)
(***************************************************************************)

Imports == {"lease", "cname", "localdns"}
IdChars == {"a", ",", " "}
Ids == UNION {[1..n -> IdChars] : n \in 0..MaxIdLen}

\* The separator and the number of fields of each format.
Separator(kind) == IF kind = "localdns" THEN " " ELSE ","
FieldCount(kind) == IF kind = "lease" THEN 3 ELSE 2

\* strings.SplitN(s, sep, n) for n > 0 and a separator of one character: at
\* most n pieces, the last one the unsplit rest.
RECURSIVE SplitNDroppingRest(_, _, _)
SplitNDroppingRest(s, sep, n) ==
    IF Index(s, sep) = 0 THEN <<s>>
    ELSE IF n = 1 THEN <<SubSeq(s, 1, Index(s, sep) - 1)>>
    ELSE <<SubSeq(s, 1, Index(s, sep) - 1)>>
            \o SplitNDroppingRest(Drop(s, Index(s, sep)), sep, n - 1)
RECURSIVE SplitN(_, _, _)
SplitN(s, sep, n) ==
    IF n = 1 \/ Index(s, sep) = 0 THEN <<s>>
    ELSE <<SubSeq(s, 1, Index(s, sep) - 1)>> \o SplitN(Drop(s, Index(s, sep)), sep, n - 1)

\* fmt.Sprintf with the resource's format: the fields with the separator
\* between them.
RECURSIVE FormatFields(_, _)
FormatFields(parts, sep) ==
    IF Len(parts) = 0 THEN <<>>
    ELSE IF Len(parts) = 1 THEN parts[1]
    ELSE parts[1] \o <<sep>> \o FormatFields(Tail(parts), sep)

\* ImportState: the id is split; the wrong number of pieces is an error,
\* otherwise the id and the pieces are the state.
NotImported == [ok |-> FALSE, done |-> FALSE, id |-> <<>>, fields |-> <<>>]
ImportResult(kind, id) ==
    IF Len(SplitN(id, Separator(kind), FieldCount(kind))) # FieldCount(kind)
    THEN [ok |-> FALSE, done |-> TRUE, id |-> <<>>, fields |-> <<>>]
    ELSE [ok |-> TRUE, done |-> TRUE, id |-> id,
          fields |-> SplitN(id, Separator(kind), FieldCount(kind))]

OnlyImport ==
    UNCHANGED <<sessVars, retryVars, newVars, updVars, entVars, cfgVars, blkVars, expVars,
                secVars>>

ImpIdle ==
    /\ importKind = "none" /\ importId = <<>> /\ imported = NotImported /\ searched = {}

ImpInit ==
    /\ importKind \in Imports
    /\ importId \in Ids
    /\ imported = NotImported
    /\ searched = {}

ImportState ==
    /\ OnlyImport
    /\ ~imported.done
    /\ imported' = ImportResult(importKind, importId)
    /\ UNCHANGED <<importKind, importId, searched>>

\* Read after the import: the value is formatted from the fields of the
\* state and searched in the array.
ReadImported ==
    /\ OnlyImport
    /\ imported.ok
    /\ searched = {}
    /\ searched' = {FormatFields(imported.fields, Separator(importKind))}
    /\ UNCHANGED <<importKind, importId, imported>>

ImpNext == ImportState \/ ReadImported

(***************************************************************************)
(* The session a call of Authenticate stores, in the sequential view: the  *)
(* call holds the write lock from the probe to the assignment, so for the  *)
(* stored pair it is one step.                                             *)
(***************************************************************************)

\* Session.Validity is an int: the remote may grant nothing or less.
GrantedValidities == {0 - SessionRefreshBuffer, 0} \cup Validities

\* A valid or not valid session envelope, or no usable answer.
NoAuthAnswer == [kind |-> "fail", valid |-> FALSE, sid |-> EmptySid, validity |-> 0]
AuthAnswers ==
    {NoAuthAnswer}
    \cup {[kind |-> "envelope", valid |-> v, sid |-> t, validity |-> d] :
            v \in BOOLEAN, t \in {EmptySid, Token(1)}, d \in GrantedValidities}
LoginAnswers ==
    AuthAnswers \cup {[kind |-> "rejected", valid |-> FALSE, sid |-> EmptySid, validity |-> 0]}

NoLease == [sid |-> EmptySid, sidExpiry |-> 0]
Stored(at, r) == [sid |-> r.sid, sidExpiry |-> at + r.validity]

\* authenticateLocked: the probe, then the login when the probe's session
\* is not valid and there is a password.
authenticateLocked(at, pw, held, probe, login) ==
    IF probe.kind # "envelope" THEN [lease |-> held, by |-> "none"]
    ELSE IF probe.valid THEN [lease |-> Stored(at, probe), by |-> "probe"]
    ELSE IF pw = "" THEN [lease |-> held, by |-> "none"]
    ELSE IF login.kind # "envelope" \/ ~login.valid THEN [lease |-> held, by |-> "none"]
    ELSE [lease |-> Stored(at, login), by |-> "login"]

OnlyExpiry == UNCHANGED <<sessVars, retryVars, newVars, updVars, entVars, cfgVars, blkVars, secVars, impVars>>

ExpIdle ==
    /\ clock = 0 /\ secret = "" /\ lease = NoLease /\ storedAt = 0
    /\ storedBy = "none" /\ authCalls = 0

ExpInit ==
    /\ clock = 0
    /\ secret \in {"", "secret"}
    /\ lease = NoLease
    /\ storedAt = 0
    /\ storedBy = "none"
    /\ authCalls = 0

AuthenticateStores ==
    /\ OnlyExpiry
    /\ authCalls < MaxOps
    /\ authCalls' = authCalls + 1
    /\ \E probe \in AuthAnswers, login \in LoginAnswers :
         LET out == authenticateLocked(clock, secret, lease, probe, login)
         IN /\ lease' = out.lease
            /\ storedAt' = IF out.by = "none" THEN storedAt ELSE clock
            /\ storedBy' = IF out.by = "none" THEN storedBy ELSE out.by
    /\ UNCHANGED <<clock, secret>>

ExpiryTick ==
    /\ OnlyExpiry
    /\ clock < MaxTicks * TickStep
    /\ clock' = clock + TickStep
    /\ UNCHANGED <<secret, lease, storedAt, storedBy, authCalls>>

ExpNext == AuthenticateStores \/ ExpiryTick

Init == SessInit /\ RetryIdle /\ NewIdle /\ UpdIdle /\ EntIdle /\ CfgIdle /\ BlkIdle /\ ExpIdle /\ SecIdle /\ ImpIdle
Next == SessNext
Spec == Init /\ [][Next]_vars

\* The calls at one instant: callers start and go on, the clock stands.
\* Whether a check finds the session valid or stale does not need the
\* clock: the remote grants lifetimes on both sides of the buffer.
Proceed ==
    \E p \in Callers :
        \/ ensureAuthenticatedSlow(p)
        \/ authenticateLockedProbe(p)
        \/ authenticateLockedLogin(p)
        \/ RequestHeader(p)
        \/ RequestDo(p)
LiveNext ==
    \/ \E p \in Callers : Authenticate(p)
    \/ \E p \in Callers : ensureAuthenticatedFast(p)
    \/ Proceed
\* A call that has started goes on while some step of a started call is
\* possible: the remote answers each attempt, and the lock, once free, is
\* granted to a caller that waits for it.
SpecLive == Init /\ [][LiveNext]_vars /\ WF_vars(Proceed)

InitRetry == RetryInit /\ SessIdle /\ NewIdle /\ UpdIdle /\ EntIdle /\ CfgIdle /\ BlkIdle /\ ExpIdle /\ SecIdle /\ ImpIdle
SpecRetry == InitRetry /\ [][RetryNext]_vars

InitNew == NewInit /\ SessIdle /\ RetryIdle /\ UpdIdle /\ EntIdle /\ CfgIdle /\ BlkIdle /\ ExpIdle /\ SecIdle /\ ImpIdle
SpecNew == InitNew /\ [][NewNext]_vars

InitUpdate == UpdInit /\ SessIdle /\ RetryIdle /\ NewIdle /\ EntIdle /\ CfgIdle /\ BlkIdle /\ ExpIdle /\ SecIdle /\ ImpIdle
SpecUpdate == InitUpdate /\ [][UpdNext]_vars

InitEntity == EntInit /\ SessIdle /\ RetryIdle /\ NewIdle /\ UpdIdle /\ CfgIdle /\ BlkIdle /\ ExpIdle /\ SecIdle /\ ImpIdle
SpecEntity == InitEntity /\ [][EntNext]_vars

InitConfig == CfgInit /\ SessIdle /\ RetryIdle /\ NewIdle /\ UpdIdle /\ EntIdle /\ BlkIdle /\ ExpIdle /\ SecIdle /\ ImpIdle
SpecConfig == InitConfig /\ [][CfgNext]_vars

InitBlocking ==
    BlkInit /\ SessIdle /\ RetryIdle /\ NewIdle /\ UpdIdle /\ EntIdle /\ CfgIdle /\ ExpIdle /\ SecIdle /\ ImpIdle
SpecBlocking == InitBlocking /\ [][BlkNext]_vars

InitExpiry ==
    ExpInit /\ SessIdle /\ RetryIdle /\ NewIdle /\ UpdIdle /\ EntIdle /\ CfgIdle /\ BlkIdle /\ SecIdle /\ ImpIdle
SpecExpiry == InitExpiry /\ [][ExpNext]_vars

InitSection ==
    /\ SecInit /\ SessIdle /\ RetryIdle /\ NewIdle /\ UpdIdle /\ EntIdle /\ CfgIdle
    /\ BlkIdle /\ ExpIdle /\ ImpIdle
SpecSection == InitSection /\ [][SecNext]_vars

InitImport ==
    /\ ImpInit /\ SessIdle /\ RetryIdle /\ NewIdle /\ UpdIdle /\ EntIdle /\ CfgIdle
    /\ BlkIdle /\ ExpIdle /\ SecIdle
SpecImport == InitImport /\ [][ImpNext]_vars

InitShort ==
    ShortInit /\ RetryIdle /\ NewIdle /\ UpdIdle /\ EntIdle /\ CfgIdle /\ BlkIdle /\ ExpIdle /\ SecIdle /\ ImpIdle
SpecShort == InitShort /\ [][SessNext]_vars

(***************************************************************************)
(* Claims about the session.                                               *)
(***************************************************************************)

AllRequestsFoundStale == \A p \in Callers : op[p] = "Request" /\ firstStale[p]
AllPastEnsure == \A p \in Callers : pc[p] \in {"build", "send", "done"}

RenewalsStillFresh ==
    /\ \A p \in Callers : authErr[p] = ""
    /\ EmptySid \notin adopted
    /\ \A e \in minGrant : now + SessionRefreshBuffer < e

C2_Original ==
    \A p \in Callers :
        dispatched[p] => /\ authErr[p] = ""
                         /\ hdr[p] # EmptySid
                         /\ hdr[p] \in adopted
                         /\ firstStale[p] => ranAuth[p]

\* C2 (amended): a dispatched request follows a session check that returned
\* no error and carries the token a successful authentication stored (which
\* is empty when the remote reported a valid session without a token); a call
\* whose re-check under the exclusive lock finds the session stale runs the
\* authentication protocol, successfully, before it dispatches.
C2_DispatchAfterCheck ==
    \A p \in Callers :
        dispatched[p] => /\ authErr[p] = ""
                         /\ hdr[p] \in adopted
                         /\ ~firstStale[p] \/ ~recheckStale[p] \/ ranAuth[p]
                         /\ recheckStale[p] => ranAuth[p]

C2_Witness ==
    \E p \in Callers :
        /\ dispatched[p] /\ firstStale[p] /\ recheckStale[p] /\ ranAuth[p]
        /\ hdr[p] # EmptySid /\ hdr[p] = sid

\* C3 as stated: an Authenticate call that starts right after an Authenticate
\* call produced a non-stale session sends no login.
C3_Original == \A p \in Callers : lockValid[p] => ~didLogin[p]

\* C6: when the authentication protocol fails inside Request, the call
\* returns an error and its resource request is never dispatched.
C6_AuthFailureBlocksDispatch ==
    \A p \in Callers :
        (op[p] = "Request" /\ authErr[p] # "")
            => /\ pc[p] = "done"
               /\ ret[p] = "error"
               /\ ~dispatched[p]
               /\ hdr[p] = EmptySid

C6_Witness ==
    /\ \E p \in Callers :
          /\ op[p] = "Request" /\ pc[p] = "done" /\ ret[p] = "error"
          /\ authErr[p] = "authentication failed"
    /\ \E p \in Callers : dispatched[p]

\* C7: when the probe reports the session valid, authenticateLocked returns
\* nil with the probe's token and expiry stored as the session, and sends no
\* login, with or without a password configured.
C7_ProbeValidAdopts ==
    [][\A p \in Callers :
          (pc[p] = "probe" /\ pc'[p] # "probe"
              /\ lastResp'.path = "probe" /\ lastResp'.kind = "envelope" /\ lastResp'.valid)
            => /\ sid' = lastResp'.sid
               /\ sidExpiry' = now + lastResp'.validity
               /\ authErr'[p] = ""
               /\ pc'[p] \in {"build", "done"}
               /\ mu' = {}
               /\ logins' = logins
               /\ ~didLogin'[p]]_vars

C7_Witness ==
    \E p \in Callers :
        /\ password # ""
        /\ lastResp.by = p /\ lastResp.path = "probe" /\ lastResp.valid
        /\ ranAuth[p] /\ ~didLogin[p] /\ authErr[p] = ""
        /\ sid = lastResp.sid /\ sid # EmptySid

(***************************************************************************)
(* Claims about the retrying transport.                                    *)
(***************************************************************************)

Only5xx == seen # {} /\ \A a \in seen : ~a.doErr /\ a.status >= 500
OnlyRetried5xx == Only5xx /\ \A a \in seen : a.status # 501

C5_Original ==
    (attempts > 0 /\ ~last.doErr /\ last.status >= 400 /\ last.status < 500)
        => /\ rpc # "do"
           /\ Cardinality(seen) = 1 => attempts = 1
           /\ rpc = "done"
                => result = IF last.body = "envelope" THEN "api error"
                            ELSE IF last.body = "envelope+hint" THEN "api error with hint"
                            ELSE "status error"

(***************************************************************************)
(* Claims about New.                                                       *)
(***************************************************************************)

\* C8 as stated: New succeeds exactly for an endpoint that is non-empty and
\* parseable, and no later operation of a constructed client fails because
\* of the endpoint.
C8_Original ==
    /\ npc \in {"ready", "failed", "requested"}
          => (npc # "failed" <=> (url # <<>> /\ Parse(url).ok))
    /\ npc = "requested" => reqErr = ""

\* C9 as stated: the normalised base path ends in the API segment exactly
\* once: it is the endpoint's path when that already ends in the segment,
\* and the endpoint's path followed by the segment otherwise (a trailing
\* slash aside).
C9_Original ==
    npc \in {"ready", "requested"}
        => Segments(baseURL.path) =
              LET given == Segments(Parse(url).path)
              IN IF given # <<>> /\ given[Len(given)] = Api THEN given
                 ELSE Append(given, Api)

(***************************************************************************)
(* Claims about the update operations.                                     *)
(***************************************************************************)

EmptyEcho == echo.kind = "ok" /\ echo.records = <<>>

\* C10: when the answer to the update holds no record, the operation makes
\* exactly one follow-up fetch, keyed by the new identity, and returns the
\* record that fetch finds; it returns an error only if the fetch fails or
\* finds no record with the new identity.
C10_RefetchByNewIdentity ==
    (upc = "done" /\ EmptyEcho) =>
        /\ fetches = <<GetPath(family, entity)>>
        /\ updated.kind \in {"ok", "error"}
        /\ updated.kind = "ok" =>
              /\ fetched.kind = "ok"
              /\ updated.record = GetOne(family, fetched.records, entity)
        /\ updated.kind = "error" =>
              \/ fetched.kind # "ok"
              \/ \A k \in 1..Len(fetched.records) : fetched.records[k].id # entity

\* An identity-changing update whose empty echo was followed by a fetch that
\* found the renamed record among several.
C10_Witness ==
    /\ upc = "done" /\ EmptyEcho
    /\ original # entity
    /\ updated.kind = "ok"
    /\ Len(fetched.records) = 2
    /\ updated.record[1].id = entity

\* C11 as stated: the update goes to the path keyed by the original
\* identity, and its body holds the new value of every identity field that
\* differs from the original.
C11_Original ==
    upc \in {"fetch", "done"} =>
        /\ putPath = UpdatePath(family, original)
        /\ \A k \in 1..Len(entity) :
              entity[k] # original[k]
                  => <<IdentityFields(family)[k], entity[k]>> \in putBody

(***************************************************************************)
(* Claims about Create, Get and Delete.                                    *)
(***************************************************************************)

\* C12 as stated: a Get returns a record only if its identity is exactly
\* the one asked for: whatever records the answer holds, the result is the
\* exactly matching record if there is one and 'not found' otherwise.
C12_Original ==
    \A k \in 1..Len(hist) :
        (hist[k].op = "Get" /\ RequestOutcome(hist[k].answer) = "ok"
                            /\ hist[k].answer.body = "records")
            => IF \E n \in 1..Len(hist[k].answer.records) :
                      hist[k].answer.records[n].id = target.id
               THEN /\ hist[k].result.kind = "ok"
                    /\ hist[k].result.record[1].id = target.id
               ELSE hist[k].result = NotFound

\* C13 as stated: a Create of an entity with an empty identity field is an
\* error and sends no request.
C13_Original ==
    \A k \in 1..Len(hist) :
        (hist[k].op = "Create" /\ HasEmptyField(target.id))
            => hist[k].result.kind = "error" /\ hist[k].sent = 0

C15_Original ==
    \A k \in 1..Len(hist) :
        (/\ hist[k].op = "Delete" /\ ~hist[k].answer.doErr
         /\ (hist[k].answer.status < 200 \/ hist[k].answer.status > 299))
            => hist[k].result.kind = "error"

\* C15 (amended): a Delete answered with a status of 400 or more returns an
\* error and never success, so a second Delete after a successful first one
\* fails when the remote reports not-found; a Delete answered with a status
\* below 400 returns success.
C15_DeletePropagatesErrors ==
    /\ \A k \in 1..Len(hist) :
          (hist[k].op = "Delete" /\ ~hist[k].answer.doErr)
              => (hist[k].result.kind = "error" <=> hist[k].answer.status >= 400)
    /\ \A k \in 2..Len(hist) :
          (/\ hist[k - 1].op = "Delete" /\ hist[k - 1].faithful
           /\ hist[k - 1].result.kind = "ok"
           /\ hist[k].op = "Delete" /\ hist[k].faithful)
              => hist[k].answer.status = 404 /\ hist[k].result.kind = "error"

\* A successful Delete followed by a Delete the remote answers not-found.
C15_Witness ==
    /\ Len(hist) = 2
    /\ hist[1].op = "Delete" /\ hist[1].faithful /\ hist[1].result = Deleted
    /\ hist[2].op = "Delete" /\ hist[2].faithful /\ hist[2].answer.status = 404
    /\ hist[2].result.kind = "error"

(***************************************************************************)
(* Claims about the configuration.                                         *)
(***************************************************************************)

\* C16: UpdateConfig for a section sends one PATCH to the config endpoint
\* whose body has the single key "config" holding the single key of that
\* section with the values given; no other section is in the body.
C16_PatchOnlyItsSection ==
    \A k \in 1..Len(cfgHist) :
        cfgHist[k].op = "UpdateConfig"
            => /\ Len(cfgHist[k].sent) = 1
               /\ cfgHist[k].sent[1].method = "PATCH"
               /\ cfgHist[k].sent[1].segments = <<<<"config">>>>
               /\ DOMAIN cfgHist[k].sent[1].body = {"config"}
               /\ DOMAIN cfgHist[k].sent[1].body["config"] = {cfgHist[k].section}
               /\ cfgHist[k].sent[1].body["config"][cfgHist[k].section] = cfgHist[k].values

\* The misc section's privacy level alone, patched.
C16_Witness ==
    \E k \in 1..Len(cfgHist) :
        /\ cfgHist[k].op = "UpdateConfig" /\ cfgHist[k].section = "misc"
        /\ DOMAIN cfgHist[k].values = {"privacy_level"}
        /\ DOMAIN cfgHist[k].sent[1].body["config"] = {"misc"}

\* C17: against a remote that applies the item PUT and DELETE to the array,
\* the existence check after an Add of the value finds it and the one after
\* a Remove of the value does not.
C17_AddRemoveRoundTrip ==
    \A k \in 2..Len(cfgHist) :
        (cfgHist[k].op = "Exists" /\ cfgHist[k].ok /\ cfgHist[k - 1].ok)
            => /\ cfgHist[k - 1].op = "Add" => cfgHist[k].found
               /\ cfgHist[k - 1].op = "Remove" => ~cfgHist[k].found

\* A static lease ("x,y") that sits in other arrays too, removed and then
\* looked for.
C17_Witness ==
    /\ Len(cfgHist) = 2
    /\ setting = "lease" /\ item = <<"x", ",", "y">>
    /\ item \in arrays[<<"dns", "hosts">>]
    /\ cfgHist[1].op = "Remove" /\ cfgHist[1].ok
    /\ cfgHist[2].op = "Exists" /\ cfgHist[2].ok /\ ~cfgHist[2].found

(***************************************************************************)
(* Claims about DNS blocking.                                              *)
(***************************************************************************)

\* C18: a Read never replaces the tracked timer with the remote's
\* countdown: the tracked timer is the value the last Create or Update
\* stored, or null, and a Read changes it, to null, only when the remote
\* reports no timer.
C18_ReadKeepsTimer ==
    /\ tracked.timer = lastStored \/ tracked.timer = {}
    /\ (blkLast.op = "Read" /\ blkLast.after # blkLast.before)
          => blkLast.ok /\ blkLast.result.timer = {} /\ blkLast.after = {}

\* A Read after the remote's timer has counted down below the stored value.
C18_Witness ==
    /\ blkLast.op = "Read" /\ blkLast.ok
    /\ lastStored = {MaxTimer}
    /\ blkLast.result.timer = {1}
    /\ tracked.timer = {MaxTimer}

\* C19: SetDNSBlocking(false, t) on a remote that blocks returns 'disabled'
\* with timer t, and a GetDNSBlocking made before that timer elapses
\* returns 'disabled' with a timer that is present and at most t.
C19_DisableWithTimer ==
    /\ (/\ blkLast.op \in {"Create", "Update"} /\ blkLast.ok
        /\ ~blkLast.enabled /\ blkLast.timer # {} /\ blkLast.wasEnabled)
          => blkLast.result = BlockingStatus("disabled", blkLast.timer)
    /\ (blkLast.op = "Read" /\ blkLast.ok /\ running # {})
          => /\ blkLast.result.blocking = "disabled"
             /\ blkLast.result.timer # {}
             /\ \A x \in blkLast.result.timer, t \in running : x <= t

\* Blocking disabled for MaxTimer seconds, read one second later.
C19_Witness ==
    /\ blkLast.op = "Read" /\ blkLast.ok
    /\ running = {MaxTimer}
    /\ blkLast.result = BlockingStatus("disabled", {MaxTimer - 1})

(***************************************************************************)
(* Claims about the stored session's expiry.                               *)
(***************************************************************************)

\* C20: whenever a non-empty session token is stored, the expiry stored
\* with it is strictly later than the moment it was set, whatever session
\* the remote returned on the probe or the login path.
C20_Original ==
    (lease.sid # EmptySid /\ storedBy # "none") => lease.sidExpiry > storedAt

(***************************************************************************)
(* Claims about concurrent callers of the session.                         *)
(***************************************************************************)

\* C21: at any moment at most one caller is inside the authentication
\* protocol, whether it came through Authenticate or through the renewal
\* of a request, and that caller holds the lock.
C21_OneAuthenticator ==
    /\ Cardinality({p \in Callers : pc[p] \in {"probe", "login"}}) <= 1
    /\ \A p \in Callers : pc[p] \in {"probe", "login"} => mu = {p}

\* An Authenticate call is at its login while a request waits for the lock.
C21_Witness ==
    \E p, q \in Callers :
        /\ p # q
        /\ pc[p] = "login" /\ op[p] = "Authenticate"
        /\ pc[q] = "lock" /\ op[q] = "Request"

C23_Original ==
    secLast.op = "Apply" => DOMAIN secLast.body \subseteq secLast.set

\* C28 as stated: when the remote's document omits the section, the Read of
\* a resource backed by it ends with an error or with the resource absent,
\* and the fields of the nil section are not accessed.
C28_Original ==
    (secLast.op \in {"Read", "ItemRead"} /\ secLast.section \in omits)
        => secLast.outcome \in {"error", "absent"}

\* C29: the patch of the dns and dhcp section resources holds no
\* array-valued field, and applying a section resource before or after the
\* Add or Remove of an array item leaves every array as it was.
C29_PatchLeavesArrays ==
    (secLast.op = "Apply" /\ secLast.section \in {"dns", "dhcp"})
        => /\ DOMAIN secLast.body \cap ArrayFields(secLast.section) = {}
           /\ secLast.after = secLast.before

\* A section resource was applied, and accepted, after an item was added to
\* an array of its section.
C29_Witness ==
    /\ secLast.op = "Apply" /\ secLast.outcome = "read"
    /\ secLast.section \in {"dns", "dhcp"}
    /\ ArrayPath(sst)[1] = secLast.section
    /\ <<"x">> \in secLast.before[ArrayPath(sst)]
    /\ secOps = 2

(***************************************************************************)
(* Claims about import by id string.                                       *)
(***************************************************************************)

\* C24: for the static lease, the CNAME record and the local-DNS record,
\* the fields an import parses from an id, formatted with the resource's
\* format, give the id again, so the Read after the import searches for
\* the imported id.
C24_ImportRoundTrip ==
    /\ imported.ok =>
          /\ imported.id = importId
          /\ Len(imported.fields) = FieldCount(importKind)
          /\ FormatFields(imported.fields, Separator(importKind)) = importId
    /\ searched \subseteq {importId}

\* A CNAME record imported by an id with two commas, and read.
C24_Witness ==
    /\ importKind = "cname"
    /\ importId = <<"a", ",", "a", ",">>
    /\ imported.ok
    /\ searched = {importId}

\* C25: a run of the authentication protocol that fails (no usable answer,
\* no password, a rejected login, a login answer that is not valid) leaves
\* the stored token and expiry as they were; they change only in the step
\* in which a probe or a login is answered with a valid session.
C25_FailedRunKeepsSession ==
    [][/\ \A p \in Callers :
             (pc[p] \in {"probe", "login"} /\ authErr'[p] # "")
                => sid' = sid /\ sidExpiry' = sidExpiry
       /\ (sid' # sid \/ sidExpiry' # sidExpiry)
             => \E p \in Callers :
                   /\ pc[p] \in {"probe", "login"}
                   /\ pc'[p] \notin {"probe", "login"}
                   /\ authErr'[p] = ""
                   /\ lastResp'.by = p /\ lastResp'.kind = "envelope" /\ lastResp'.valid]_vars

\* A run failed at the login while a session stored by an earlier run is
\* kept.
C25_Witness ==
    \E p \in Callers :
        /\ authErr[p] # "" /\ didLogin[p]
        /\ sid # EmptySid /\ lastResp.by = p

C30_DestroyEnables ==
    /\ blkLast.op = "Delete" => blkLast.enabled /\ blkLast.timer = {}
    /\ (blkLast.op = "Delete" /\ blkLast.ok)
          => /\ blkLast.result = BlockingStatus("enabled", {})
             /\ blocking = "enabled" /\ countdown = {}
             /\ ~tracked.present

\* A resource that tracked blocking disabled with a timer was destroyed
\* while the remote did not block.
C30_Witness ==
    /\ blkLast.op = "Delete" /\ blkLast.ok
    /\ ~blkLast.wasEnabled
    /\ blkLast.before # {}
    /\ blocking = "enabled"

\* C26: every call that has started, Authenticate or a request, returns,
\* and the lock is free once the calls have returned, so a renewal that
\* failed for one caller does not block the others: a call that has
\* started never becomes one that has not, a call that has returned stays
\* returned, and again and again every started call has returned with the
\* lock free.
C26_CallsReturn ==
    /\ [][\A p \in Callers : /\ pc[p] # "idle" => pc'[p] # "idle"
                             /\ pc[p] = "done" => pc'[p] = "done"]_vars
    /\ []<>(/\ \A p \in Callers : pc[p] # "idle" => pc[p] = "done"
            /\ mu = {})

\* A request returned its result after another caller's renewal had failed.
C26_Witness ==
    \E p, q \in Callers :
        /\ p # q
        /\ authErr[q] # "" /\ pc[q] = "done"
        /\ op[p] = "Request" /\ ranAuth[p] /\ pc[p] = "done" /\ ret[p] = "transport"
        /\ mu = {}

====
